---- MODULE Spec2Model ----
(***************************************************************************)
(* A model of the fency-pgn board-state engine: squares, figures, castling *)
(* rights, the SAN token parser, the position-string parser and            *)
(* Game::play_move with its disambiguation cascade.                        *)
(*                                                                         *)
(* Text is modelled as a sequence of one-character strings, so that        *)
(* parsing and rendering are computed and not assumed.  A Rust Option is a *)
(* sequence of length at most one: <<>> is None, <<v>> is Some(v).  A      *)
(* function that can panic returns an Option as well, None being the       *)
(* panic.                                                                  *)
(***************************************************************************)
EXTENDS Integers, Sequences, FiniteSets, TLC

\* ------------------------------------------------------------------ Option
None == <<>>
Some(v) == <<v>>
is_some(o) == o # <<>>
is_none(o) == o = <<>>
unwrap(o) == o[1]

\* ------------------------------------------------------------- characters
\* The printable ASCII characters, code 32 first.  The characters no text of the
\* model contains are written by name.
Ascii ==
  <<" ", "!", "DQUOTE", "#", "$", "%", "&", "QUOTE", "LPAREN", "RPAREN", "STAR", "+", ",", "-", ".", "/",
    "0", "1", "2", "3", "4", "5", "6", "7", "8", "9", ":", ";", "<", "=", ">", "?",
    "@", "A", "B", "C", "D", "E", "F", "G", "H", "I", "J", "K", "L", "M", "N", "O",
    "P", "Q", "R", "S", "T", "U", "V", "W", "X", "Y", "Z", "[", "BSLASH", "]", "^", "_",
    "BTICK", "a", "b", "c", "d", "e", "f", "g", "h", "i", "j", "k", "l", "m", "n", "o",
    "p", "q", "r", "s", "t", "u", "v", "w", "x", "y", "z", "{", "|", "}", "~">>

\* (c as i8) for an ASCII character.
Code(c) == 31 + (CHOOSE i \in 1..Len(Ascii) : Ascii[i] = c)

\* char::from_u32(n): None outside the modelled alphabet.
Chr(n) == IF n \in 32..126 THEN Some(Ascii[n - 31]) ELSE None

is_uppercase(c) == Code(c) \in 65..90
is_lowercase(c) == Code(c) \in 97..122
is_ascii_digit(c) == Code(c) \in 48..57
to_digit(c) == Code(c) - 48

\* ---------------------------------------------------------------- integers
abs(n) == IF n < 0 THEN -n ELSE n

\* Division and remainder on Rust's signed integers truncate toward zero.
TruncDiv(a, b) == IF a >= 0 THEN a \div b ELSE -((-a) \div b)
TruncRem(a, b) == a - b * TruncDiv(a, b)

\* An i8 result, wrapped to its width.
I8(n) == ((n + 128) % 256) - 128

\* ------------------------------------------------------------------- Color
Color_W == "W"
Color_B == "B"

Color_next(c) == IF c = Color_W THEN Color_B ELSE Color_W

\* White pawns are moving upwards, black ones downwards.
Color_factor(c) == IF c = Color_W THEN 1 ELSE -1

Color_is_white(c) == c = Color_W
Color_is_black(c) == c = Color_B

\* impl From<char> for Color: the assertion fails on any other character.
Color_from(col) ==
  IF ~((col = "w") \/ (col = "b")) THEN None
  ELSE IF col = "w" THEN Some(Color_W) ELSE Some(Color_B)

Color_to_string(c) == IF c = Color_W THEN <<"w">> ELSE <<"b">>

\* ------------------------------------------------------------------- Piece
Piece_from(c) ==
  CASE c \in {"r", "R"} -> "R"
    [] c \in {"n", "N"} -> "N"
    [] c \in {"b", "B"} -> "B"
    [] c \in {"q", "Q"} -> "Q"
    [] c \in {"k", "K"} -> "K"
    [] OTHER -> "P"

Piece_to_char(p, color) ==
  IF color = Color_W
  THEN p
  ELSE CASE p = "R" -> "r" [] p = "N" -> "n" [] p = "B" -> "b"
         [] p = "Q" -> "q" [] p = "K" -> "k" [] OTHER -> "p"

\* ------------------------------------------------------------------- Coord
\* impl From<&str> for Coord.  Only the upper bounds of x and y are asserted.
Coord_from(field) ==
  IF Len(field) # 2 THEN None
  ELSE LET file == field[1]
           rank == field[2]
           x == Code(file) - Code("a")
           y == Code(rank) - Code("1")
           idx == I8(x + 8 * (7 - y))
       IN IF ~((x < 8) /\ (y < 8)) THEN None
          ELSE Some([file |-> file, rank |-> rank, x |-> x, y |-> y, idx |-> idx,
                     anti_diagonal |-> x + y, main_diagonal |-> 7 + y - x])

\* from_idx counting the ranks upward from index 0.
Coord_from_idx_ranks_upward(idx) ==
  IF ~(idx < 64) THEN None
  ELSE LET x == TruncRem(idx, 8)
           y == TruncDiv(idx, 8)
           file == Chr(x + 97)
           rank == Chr(y + 49)
       IN IF is_none(file) \/ is_none(rank) THEN None
          ELSE Coord_from(<<unwrap(file), unwrap(rank)>>)

\* impl FromIndex for Coord.  Only the upper bound of idx is asserted.
Coord_from_idx(idx) ==
  IF ~(idx < 64) THEN None
  ELSE LET x == TruncRem(idx, 8)
           y == 7 - TruncDiv(idx, 8)
           file == Chr(x + 97)
           rank == Chr(y + 49)
       IN IF is_none(file) \/ is_none(rank) THEN None
          ELSE Coord_from(<<unwrap(file), unwrap(rank)>>)

Coord_to_string(c) == <<c.file, c.rank>>

\* get_board(): the 64 squares by index.
board == [i \in 0..63 |-> unwrap(Coord_from_idx(i))]

valid_idx(idx) == idx \in 0..63

\* ------------------------------------------------------------------ Figure
\* impl From<&str> for Figure, e.g. "Nc1" or "ng8".
Figure_from(figstr) ==
  LET pchar == figstr[1]
  IN [color |-> IF is_uppercase(pchar) THEN Color_W ELSE Color_B,
      coord |-> unwrap(Coord_from(SubSeq(figstr, 2, 3))),
      piece |-> Piece_from(pchar)]

Figure_to_char(f) == Piece_to_char(f.piece, f.color)

Figure_move_to(f, coord) == [color |-> f.color, coord |-> coord, piece |-> f.piece]

\* ---------------------------------------------------------------- Castling
Castling_new ==
  [white_kingside |-> TRUE, white_queenside |-> TRUE,
   black_kingside |-> TRUE, black_queenside |-> TRUE]

\* Castling::castle(self, color) -> Self: the value it returns.
Castling_castle(c, color) ==
  IF color = Color_W
  THEN [white_kingside |-> FALSE, white_queenside |-> FALSE,
        black_kingside |-> c.black_kingside, black_queenside |-> c.black_queenside]
  ELSE [white_kingside |-> c.white_kingside, white_queenside |-> c.white_queenside,
        black_kingside |-> FALSE, black_queenside |-> FALSE]

\* Castling::update(self, figure) -> Self: the value it returns.
Castling_update(c, figure) ==
  IF figure.piece = "R"
  THEN IF figure.color = Color_W
       THEN IF figure.coord.idx = 56 THEN [c EXCEPT !.white_queenside = FALSE]
            ELSE IF figure.coord.idx = 63 THEN [c EXCEPT !.white_kingside = FALSE]
            ELSE c
       ELSE IF figure.coord.idx = 0 THEN [c EXCEPT !.black_queenside = FALSE]
            ELSE IF figure.coord.idx = 7 THEN [c EXCEPT !.black_kingside = FALSE]
            ELSE c
  ELSE IF figure.piece = "K"
  THEN IF figure.color = Color_W
       THEN [c EXCEPT !.white_queenside = FALSE, !.white_kingside = FALSE]
       ELSE [c EXCEPT !.black_queenside = FALSE, !.black_kingside = FALSE]
  ELSE c

Contains(s, ch) == \E i \in 1..Len(s) : s[i] = ch

\* impl From<&str> for Castling: one membership test per letter.
Castling_from(fen) ==
  [white_kingside |-> Contains(fen, "K"), white_queenside |-> Contains(fen, "Q"),
   black_kingside |-> Contains(fen, "k"), black_queenside |-> Contains(fen, "q")]

\* Display writing Black's rights before White's.
Castling_to_string_black_first(c) ==
  LET ca == (IF c.black_kingside THEN <<"k">> ELSE <<>>)
            \o (IF c.black_queenside THEN <<"q">> ELSE <<>>)
            \o (IF c.white_kingside THEN <<"K">> ELSE <<>>)
            \o (IF c.white_queenside THEN <<"Q">> ELSE <<>>)
  IN IF Len(ca) = 0 THEN <<"-">> ELSE ca

\* impl Display for Castling.
Castling_to_string(c) ==
  LET ca == (IF c.white_kingside THEN <<"K">> ELSE <<>>)
            \o (IF c.white_queenside THEN <<"Q">> ELSE <<>>)
            \o (IF c.black_kingside THEN <<"k">> ELSE <<>>)
            \o (IF c.black_queenside THEN <<"q">> ELSE <<>>)
  IN IF Len(ca) = 0 THEN <<"-">> ELSE ca

\* -------------------------------------------------------------------- Draw
\* The character classes of SAN_REGEX.
IsPieceLetter(c) == c \in {"N", "B", "R", "Q", "K"}
IsFileLetter(c) == Code(c) \in Code("a")..Code("h")
IsRankDigit(c) == Code(c) \in Code("1")..Code("8")

\* SanChoices with every optional group tried absent before present.
SanChoices_absent_first ==
  [k \in 1..16 |->
     LET n == k - 1
     IN <<n \div 8, (n \div 4) % 2, (n \div 2) % 2, n % 2>>]

\* Which of the four optional groups before the target (Piece, RemainderFile,
\* RemainderRank, Hit) take a character, in the order a backtracking matcher
\* tries them: each group is greedy, so "present" is tried before "absent".
SanChoices ==
  [k \in 1..16 |->
     LET n == 16 - k
     IN <<n \div 8, (n \div 4) % 2, (n \div 2) % 2, n % 2>>]

\* SAN_REGEX matches at index i with the groups of choice ch.
SanMatchAt(san, i, ch) ==
  LET a == i + ch[1]
      b == a + ch[2]
      c == b + ch[3]
      t == c + ch[4]
  IN /\ t + 1 <= Len(san)
     /\ (ch[1] = 1 => IsPieceLetter(san[i]))
     /\ (ch[2] = 1 => IsFileLetter(san[a]))
     /\ (ch[3] = 1 => IsRankDigit(san[b]))
     /\ (ch[4] = 1 => san[c] = "x")
     /\ IsFileLetter(san[t])
     /\ IsRankDigit(san[t + 1])

\* "=?" then the optional PromotesTo group, e being the index after the target.
SanPromotesTo(san, e) ==
  IF (e <= Len(san)) /\ (san[e] = "=")
  THEN IF (e + 1 <= Len(san)) /\ IsPieceLetter(san[e + 1]) THEN Some(san[e + 1]) ELSE None
  ELSE IF (e <= Len(san)) /\ IsPieceLetter(san[e]) THEN Some(san[e]) ELSE None

\* The groups of the match at index i under choice ch.
SanGroups(san, i, ch) ==
  [Piece |-> IF ch[1] = 1 THEN Some(san[i]) ELSE None,
   RemainderFile |-> IF ch[2] = 1 THEN Some(san[i + ch[1]]) ELSE None,
   RemainderRank |-> IF ch[3] = 1 THEN Some(san[i + ch[1] + ch[2]]) ELSE None,
   Hit |-> IF ch[4] = 1 THEN Some("x") ELSE None,
   Target |-> SubSeq(san, i + ch[1] + ch[2] + ch[3] + ch[4],
                     i + ch[1] + ch[2] + ch[3] + ch[4] + 1),
   PromotesTo |-> SanPromotesTo(san, i + ch[1] + ch[2] + ch[3] + ch[4] + 2)]

\* The matches <<index, choice>> no other match comes before: the leftmost
\* index, and at that index the first choice.
SanFirst(san) ==
  {m \in (1..Len(san)) \X (1..16) :
     /\ SanMatchAt(san, m[1], SanChoices[m[2]])
     /\ \A n \in (1..m[1]) \X (1..16) :
          ((n[1] < m[1]) \/ (n[2] < m[2])) => ~SanMatchAt(san, n[1], SanChoices[n[2]])}

\* The captures of the first match, if there is one.
SanFirstGroups(san, first) ==
  IF first = {} THEN None
  ELSE Some(SanGroups(san, (CHOOSE m \in first : TRUE)[1],
                      SanChoices[(CHOOSE m \in first : TRUE)[2]]))

\* re_san.captures(san)
SanCaptures(san) == SanFirstGroups(san, SanFirst(san))

\* The fields of Draw from the token and its captures.
Draw_of(san, captures) ==
  IF is_none(captures) THEN None
  ELSE Some([san |-> san,
             is_check |-> Contains(san, "+") \/ Contains(san, "#"),
             is_checkmate |-> Contains(san, "#"),
             is_promo |-> Contains(san, "="),
             is_hit |-> Contains(san, "x"),
             target |-> unwrap(Coord_from(unwrap(captures).Target)),
             piece |-> IF is_none(unwrap(captures).Piece) THEN "P"
                       ELSE Piece_from(unwrap(unwrap(captures).Piece)),
             promoted_piece |->
               IF is_none(unwrap(captures).PromotesTo) THEN None
               ELSE Some(Piece_from(unwrap(unwrap(captures).PromotesTo))),
             remainder_file |-> unwrap(captures).RemainderFile,
             remainder_rank |-> unwrap(captures).RemainderRank])

\* impl From<String> for Draw; None when the token has no match (the unwrap of
\* the captures panics).  The flags are read from the whole token.
Draw_from(san) == Draw_of(san, SanCaptures(san))

\* -------------------------------------------------------------------- Game
FIGURE_STR_VEC ==
  << <<"r", "a", "8">>, <<"n", "b", "8">>, <<"b", "c", "8">>, <<"q", "d", "8">>,
     <<"k", "e", "8">>, <<"b", "f", "8">>, <<"n", "g", "8">>, <<"r", "h", "8">>,
     <<"p", "a", "7">>, <<"p", "b", "7">>, <<"p", "c", "7">>, <<"p", "d", "7">>,
     <<"p", "e", "7">>, <<"p", "f", "7">>, <<"p", "g", "7">>, <<"p", "h", "7">>,
     <<"P", "a", "2">>, <<"P", "b", "2">>, <<"P", "c", "2">>, <<"P", "d", "2">>,
     <<"P", "e", "2">>, <<"P", "f", "2">>, <<"P", "g", "2">>, <<"P", "h", "2">>,
     <<"R", "a", "1">>, <<"N", "b", "1">>, <<"B", "c", "1">>, <<"Q", "d", "1">>,
     <<"K", "e", "1">>, <<"B", "f", "1">>, <<"N", "g", "1">>, <<"R", "h", "1">> >>

EmptyPosition == [i \in 0..63 |-> None]

\* The figures of a position: position.iter().filter_map(|fig| *fig).collect().
figures_of(position) ==
  {unwrap(position[i]) : i \in {j \in 0..63 : is_some(position[j])}}

RECURSIVE place_all(_, _, _)
\* The loop of Game::new over FIGURE_STR_VEC, from its k-th entry on.
place_all(position, strs, k) ==
  IF k > Len(strs) THEN position
  ELSE LET fig == Figure_from(strs[k])
       IN place_all([position EXCEPT ![fig.coord.idx] = Some(fig)], strs, k + 1)

\* Game::new counting the full moves from zero.
Game_new_from_move_zero ==
  LET position == place_all(EmptyPosition, FIGURE_STR_VEC, 1)
  IN [position |-> position,
      figures |-> figures_of(position),
      color |-> Color_W,
      castling |-> Castling_new,
      en_passant |-> None,
      half_move_clock |-> 0,
      full_move_clock |-> 0,
      uci |-> <<"0", "0", "0", "0">>]

\* Game::new
Game_new ==
  LET position == place_all(EmptyPosition, FIGURE_STR_VEC, 1)
  IN [position |-> position,
      figures |-> figures_of(position),
      color |-> Color_W,
      castling |-> Castling_new,
      en_passant |-> None,
      half_move_clock |-> 0,
      full_move_clock |-> 1,
      uci |-> <<"0", "0", "0", "0">>]

\* Game::find_king: any figure the scan of the hash set can meet first.
find_king(g, color) == {f \in g.figures : (f.piece = "K") /\ (f.color = color)}

remove_figure(g, figure) ==
  [g EXCEPT !.figures = @ \ {figure},
            !.position = [@ EXCEPT ![figure.coord.idx] = None]]

\* insert the moved figure, remove the old one; write the target, clear the source.
move_figure(g, figure, target) ==
  LET moved_figure == Figure_move_to(figure, target)
  IN [g EXCEPT !.figures = (@ \cup {moved_figure}) \ {figure},
               !.position = [[@ EXCEPT ![target.idx] = Some(moved_figure)]
                               EXCEPT ![figure.coord.idx] = None]]

\* ------------------------------------------------------- position strings
RECURSIVE split_from(_, _, _, _)
\* fen.split(' '), scanning from index i with the part begun in cur.
split_from(s, i, cur, acc) ==
  IF i > Len(s) THEN Append(acc, cur)
  ELSE IF s[i] = " " THEN split_from(s, i + 1, <<>>, Append(acc, cur))
  ELSE split_from(s, i + 1, Append(cur, s[i]), acc)

split_spaces(s) == split_from(s, 1, <<>>, <<>>)

RECURSIVE digits_value(_, _, _)
digits_value(s, k, acc) ==
  IF k > Len(s) THEN acc ELSE digits_value(s, k + 1, 10 * acc + to_digit(s[k]))

\* str::parse::<u16>: an optional '+', then digits, at most 65535.
parse_u16(s) ==
  LET body == IF Len(s) > 0 /\ s[1] = "+" THEN Tail(s) ELSE s
  IN IF Len(body) = 0 \/ (\E k \in 1..Len(body) : ~is_ascii_digit(body[k])) THEN None
     ELSE IF digits_value(body, 1, 0) > 65535 THEN None
     ELSE Some(digits_value(body, 1, 0))

RECURSIVE fen_scan(_, _, _, _)
\* The loop of fen_to_position from the k-th character on, i squares filled.
\* Writing past the 64th slot panics.
fen_scan(fen, k, i, figures) ==
  IF k > Len(fen) THEN Some(figures)
  ELSE LET l == fen[k]
       IN IF is_ascii_digit(l) THEN fen_scan(fen, k + 1, i + to_digit(l), figures)
          ELSE IF l = "/" THEN fen_scan(fen, k + 1, i, figures)
          ELSE IF i >= 64 THEN None
          ELSE fen_scan(fen, k + 1, i + 1,
                        [figures EXCEPT ![i] =
                           Some([color |-> IF is_lowercase(l) THEN Color_B ELSE Color_W,
                                 piece |-> Piece_from(l),
                                 coord |-> board[i]])])

fen_to_position(fen) == fen_scan(fen, 1, 0, EmptyPosition)

\* impl FromStr for Game, unwrapped; None when it panics.
Game_from_str(fen) ==
  LET fen_parts == split_spaces(fen)
  IN IF Len(fen_parts) < 6 THEN None
     ELSE LET position == fen_to_position(fen_parts[1])
              color_str == fen_parts[2]
              color == IF Len(color_str) = 0 THEN None ELSE Color_from(color_str[1])
              ep_str == fen_parts[4]
              en_passant == IF ep_str = <<"-">> THEN Some(None)
                            ELSE IF is_none(Coord_from(ep_str)) THEN None
                            ELSE Some(Coord_from(ep_str))
              half_move_clock == parse_u16(fen_parts[5])
              full_move_clock == parse_u16(fen_parts[6])
          IN IF is_none(position) \/ is_none(color) \/ is_none(en_passant)
                \/ is_none(half_move_clock) \/ is_none(full_move_clock)
             THEN None
             ELSE Some([position |-> unwrap(position),
                        figures |-> figures_of(unwrap(position)),
                        color |-> unwrap(color),
                        castling |-> Castling_from(fen_parts[3]),
                        en_passant |-> unwrap(en_passant),
                        half_move_clock |-> unwrap(half_move_clock),
                        full_move_clock |-> unwrap(full_move_clock),
                        uci |-> <<"0", "0", "0", "0">>])

RECURSIVE u16_to_string(_)
\* The decimal digits of a clock.
u16_to_string(n) ==
  IF n < 10 THEN <<unwrap(Chr(48 + n))>>
  ELSE u16_to_string(n \div 10) \o <<unwrap(Chr(48 + (n % 10)))>>

\* unload_space writing a digit even when no empty square is pending.
unload_space_always(spacer) == <<unwrap(Chr(48 + spacer))>>

\* unload_space: the run of empty squares counted so far, as a digit.
unload_space(spacer) == IF spacer > 0 THEN <<unwrap(Chr(48 + spacer))>> ELSE <<>>

RECURSIVE fen_render(_, _, _)
\* The loop of position_to_fen from slot f on, spacer empty squares pending.
fen_render(position, f, spacer) ==
  IF f > 63 THEN unload_space(spacer)
  ELSE LET row == (f > 0) /\ (f % 8 = 0)
           sep == IF row THEN unload_space(spacer) \o <<"/">> ELSE <<>>
           sp == IF row THEN 0 ELSE spacer
       IN IF is_some(position[f])
          THEN sep \o unload_space(sp) \o <<Figure_to_char(unwrap(position[f]))>>
                   \o fen_render(position, f + 1, 0)
          ELSE sep \o fen_render(position, f + 1, sp + 1)

position_to_fen(position) == fen_render(position, 0, 0)

\* Game::to_fen: the six fields of to_fen_list joined by spaces.
Game_to_fen(g) ==
  position_to_fen(g.position) \o <<" ">>
    \o Color_to_string(g.color) \o <<" ">>
    \o Castling_to_string(g.castling) \o <<" ">>
    \o (IF is_none(g.en_passant) THEN <<"-">> ELSE Coord_to_string(unwrap(g.en_passant)))
    \o <<" ">>
    \o u16_to_string(g.half_move_clock) \o <<" ">>
    \o u16_to_string(g.full_move_clock)

\* ---------------------------------------------------------- movement rules
RECURSIVE flatten(_, _)
\* The vector a loop over a fixed list of offsets pushes to, offset by offset.
flatten(parts, k) == IF k > Len(parts) THEN <<>> ELSE parts[k] \o flatten(parts, k + 1)

is_free(g, ti) == is_none(g.position[ti])
is_enemy(g, ti, fig) == unwrap(g.position[ti]).color # fig.color

get_pawn_hits(fig, g) ==
  LET ci == fig.coord.idx
      f == Color_factor(fig.color)
      hit(i) ==
        LET ti == ci - f * i
        IN IF valid_idx(ti) /\ ~is_free(g, ti)
           THEN IF is_enemy(g, ti, fig) THEN <<ti>> ELSE <<>>
           ELSE IF valid_idx(ti) /\ is_some(g.en_passant) /\ unwrap(g.en_passant).idx = ti
           THEN <<ti>>
           ELSE <<>>
  IN hit(7) \o hit(9)

\* get_pawn_moves offering the two-square advance from every rank.
get_pawn_moves_from_any_rank(fig, g) ==
  LET ci == fig.coord.idx
      f == Color_factor(fig.color)
      ti == ci - f * 8
      one == IF valid_idx(ti) /\ is_free(g, ti) THEN <<ti>> ELSE <<>>
      tii == ci - f * 16
  IN IF (valid_idx(tii) /\ valid_idx(ti)) /\ one # <<>>
     THEN one \o <<tii>>
     ELSE one

\* The two-square advance tests the square one ahead (ti), not the square it
\* lands on (tii).
get_pawn_moves(fig, g) ==
  LET ci == fig.coord.idx
      f == Color_factor(fig.color)
      ti == ci - f * 8
      one == IF valid_idx(ti) /\ is_free(g, ti) THEN <<ti>> ELSE <<>>
      tii == ci - f * 16
  IN IF (Color_is_white(fig.color) /\ fig.coord.y = 1)
        \/ (Color_is_black(fig.color) /\ fig.coord.y = 6)
     THEN IF (valid_idx(tii) /\ is_free(g, ti)) /\ one # <<>>
          THEN one \o <<tii>>
          ELSE one
     ELSE one

\* One run of the loop of get_knight_moves without the test on the files.
get_knight_moves_over_the_edge(fig, g) ==
  LET deltas == <<-17, -15, -10, -6, 6, 10, 15, 17>>
      jump(i) ==
        IF valid_idx(fig.coord.idx + i)
           /\ (is_free(g, fig.coord.idx + i) \/ is_enemy(g, fig.coord.idx + i, fig))
        THEN <<fig.coord.idx + i>> ELSE <<>>
  IN flatten([k \in 1..8 |-> jump(deltas[k])], 1)

get_knight_moves(fig, g) ==
  LET ci == fig.coord.idx
      deltas == <<-17, -15, -10, -6, 6, 10, 15, 17>>
      jump(i) ==
        LET ti == ci + i
        IN IF valid_idx(ti)
              /\ abs(fig.coord.x - board[ti].x) < 3
              /\ (is_free(g, ti) \/ is_enemy(g, ti, fig))
           THEN <<ti>> ELSE <<>>
  IN flatten([k \in 1..8 |-> jump(deltas[k])], 1)

RECURSIVE bishop_ray_any_square(_, _, _, _)
\* The loop of get_bishop_moves without the test on the diagonals.
bishop_ray_any_square(fig, g, d, f) ==
  IF valid_idx(fig.coord.idx + f * d)
  THEN IF is_free(g, fig.coord.idx + f * d)
       THEN <<fig.coord.idx + f * d>> \o bishop_ray_any_square(fig, g, d, f + 1)
       ELSE IF is_enemy(g, fig.coord.idx + f * d, fig)
       THEN <<fig.coord.idx + f * d>> ELSE <<>>
  ELSE <<>>

RECURSIVE bishop_ray(_, _, _, _)
\* One run of the while loop of get_bishop_moves for delta d, from factor f on.
bishop_ray(fig, g, d, f) ==
  LET ti == fig.coord.idx + f * d
  IN IF valid_idx(ti)
        /\ ((board[ti].main_diagonal = fig.coord.main_diagonal)
            \/ (board[ti].anti_diagonal = fig.coord.anti_diagonal))
     THEN IF is_free(g, ti) THEN <<ti>> \o bishop_ray(fig, g, d, f + 1)
          ELSE IF is_enemy(g, ti, fig) THEN <<ti>> ELSE <<>>
     ELSE <<>>

get_bishop_moves(fig, g) ==
  LET deltas == <<-9, -7, 7, 9>>
  IN flatten([k \in 1..4 |-> bishop_ray(fig, g, deltas[k], 1)], 1)

RECURSIVE rook_ray_any_square(_, _, _, _)
\* The loop of get_rook_moves without the test on the file and the rank.
rook_ray_any_square(fig, g, d, f) ==
  IF valid_idx(fig.coord.idx + f * d)
  THEN IF is_free(g, fig.coord.idx + f * d)
       THEN <<fig.coord.idx + f * d>> \o rook_ray_any_square(fig, g, d, f + 1)
       ELSE IF is_enemy(g, fig.coord.idx + f * d, fig)
       THEN <<fig.coord.idx + f * d>> ELSE <<>>
  ELSE <<>>

RECURSIVE rook_ray(_, _, _, _)
\* One run of the while loop of get_rook_moves for delta d, from factor f on.
rook_ray(fig, g, d, f) ==
  LET ti == fig.coord.idx + f * d
  IN IF valid_idx(ti)
        /\ ((board[ti].x = fig.coord.x) \/ (board[ti].y = fig.coord.y))
     THEN IF is_free(g, ti) THEN <<ti>> \o rook_ray(fig, g, d, f + 1)
          ELSE IF is_enemy(g, ti, fig) THEN <<ti>> ELSE <<>>
     ELSE <<>>

get_rook_moves(fig, g) ==
  LET deltas == <<-8, -1, 1, 8>>
  IN flatten([k \in 1..4 |-> rook_ray(fig, g, deltas[k], 1)], 1)

get_queen_moves(fig, g) == get_bishop_moves(fig, g) \o get_rook_moves(fig, g)

\* The rank test compares the king's y with the target's x, as the source does.
get_king_moves(fig, g) ==
  LET ci == fig.coord.idx
      deltas == <<-9, -8, -7, -1, 1, 7, 8, 9>>
      step(i) ==
        LET ti == ci + i
        IN IF valid_idx(ti)
              /\ ((abs(fig.coord.x - board[ti].x) <= 1)
                  \/ (abs(fig.coord.y - board[ti].x) <= 1))
           THEN IF is_free(g, ti) THEN <<ti>>
                ELSE IF is_enemy(g, ti, fig) THEN <<ti>> ELSE <<>>
           ELSE <<>>
  IN flatten([k \in 1..8 |-> step(deltas[k])], 1)

to_coords(coordis) == [k \in 1..Len(coordis) |-> board[coordis[k]]]

get_moves(fig, g) ==
  to_coords(CASE fig.piece = "P" -> get_pawn_moves(fig, g)
              [] fig.piece = "R" -> get_rook_moves(fig, g)
              [] fig.piece = "N" -> get_knight_moves(fig, g)
              [] fig.piece = "B" -> get_bishop_moves(fig, g)
              [] fig.piece = "Q" -> get_queen_moves(fig, g)
              [] fig.piece = "K" -> get_king_moves(fig, g))

get_hits(fig, g) ==
  IF fig.piece = "P" THEN to_coords(get_pawn_hits(fig, g)) ELSE get_moves(fig, g)

\* Vec::contains
contains(coords, c) == \E k \in 1..Len(coords) : coords[k] = c

\* ------------------------------------------------- disambiguation cascade
\* Each stage yields: movers, the figures it can return (none: an unwrap of
\* the stage panics); final, the candidates left when the cascade ended (those
\* the last stage was given, when it panics before it filters); stage, the
\* number of the stage that ended it.
Resolved(movers, final, stage) ==
  [movers |-> movers, final |-> final, stage |-> stage, kept |-> <<>>]

\* The result r of the stages after this one, with the candidates this stage
\* kept (its figs) put before theirs: kept[k] is what stage k kept.
Kept(figs, r) == [r EXCEPT !.kept = <<figs>> \o @]

\* The enemy rooks, bishops and queens that reach king_coord in alt_game.
\* n_checkers counting bishops and queens only.
n_checkers_without_rooks(alt_game, color, king_coord) ==
  Cardinality({f \in alt_game.figures :
                 /\ f.color # color
                 /\ f.piece \in {"B", "Q"}
                 /\ contains(get_moves(f, alt_game), king_coord)})

n_checkers(alt_game, color, king_coord) ==
  Cardinality({f \in alt_game.figures :
                 /\ f.color # color
                 /\ f.piece \in {"R", "B", "Q"}
                 /\ contains(get_moves(f, alt_game), king_coord)})

\* filter_on_pins returning from the candidates it was given instead of from
\* those that leave the own king unattacked.
filter_on_pins_unfiltered(figures, draw, g) ==
  LET kings == find_king(g, g.color)
      captured == g.position[draw.target.idx]
  IN IF kings = {} THEN Kept({}, Resolved({}, figures, 4))
     ELSE IF draw.is_hit /\ is_none(captured) THEN Kept({}, Resolved({}, figures, 4))
     ELSE LET base_game == IF draw.is_hit THEN remove_figure(g, unwrap(captured)) ELSE g
              safe(king_coord) ==
                {fig \in figures :
                   n_checkers(move_figure(base_game, fig, draw.target), g.color, king_coord) = 0}
              figs == UNION {safe(k.coord) : k \in kings}
          IN Kept(figs, Resolved(figures, figs, 4))

\* The loop pushes every candidate that leaves no checker; the first of them
\* in the iteration order of the hash set is returned, which can be any of them.
filter_on_pins(figures, draw, g) ==
  LET kings == find_king(g, g.color)
      captured == g.position[draw.target.idx]
  IN IF kings = {} THEN Kept({}, Resolved({}, figures, 4))
     ELSE IF draw.is_hit /\ is_none(captured) THEN Kept({}, Resolved({}, figures, 4))
     ELSE LET base_game == IF draw.is_hit THEN remove_figure(g, unwrap(captured)) ELSE g
              safe(king_coord) ==
                {fig \in figures :
                   n_checkers(move_figure(base_game, fig, draw.target), g.color, king_coord) = 0}
              figs == UNION {safe(k.coord) : k \in kings}
          IN Kept(figs, Resolved(figs, figs, 4))

\* filter_on_moves looking at the quiet destinations for every token.
filter_on_moves_quiet_only(figures, draw, g) ==
  LET figs == {f \in figures : contains(get_moves(f, g), draw.target)}
  IN Kept(figs, IF Cardinality(figs) = 1 THEN Resolved(figs, figs, 3)
                 ELSE filter_on_pins(figs, draw, g))

filter_on_moves(figures, draw, g) ==
  LET figs == IF draw.is_hit
              THEN {f \in figures : contains(get_hits(f, g), draw.target)}
              ELSE {f \in figures : contains(get_moves(f, g), draw.target)}
  IN Kept(figs, IF Cardinality(figs) = 1 THEN Resolved(figs, figs, 3)
                 ELSE filter_on_pins(figs, draw, g))

\* filter_on_remainder keeping every candidate when only a rank is given.
filter_on_remainder_ignores_lone_rank(figures, draw, g) ==
  LET figs ==
        IF is_none(draw.remainder_file) /\ is_none(draw.remainder_rank) THEN figures
        ELSE IF is_some(draw.remainder_file) /\ is_some(draw.remainder_rank)
        THEN {f \in figures : (f.coord.file = unwrap(draw.remainder_file))
                              /\ (f.coord.rank = unwrap(draw.remainder_rank))}
        ELSE IF is_some(draw.remainder_file)
        THEN {f \in figures : f.coord.file = unwrap(draw.remainder_file)}
        ELSE figures
  IN Kept(figs, IF Cardinality(figs) = 1 THEN Resolved(figs, figs, 2)
                 ELSE filter_on_moves(figs, draw, g))

filter_on_remainder(figures, draw, g) ==
  LET figs ==
        IF is_none(draw.remainder_file) /\ is_none(draw.remainder_rank) THEN figures
        ELSE IF is_some(draw.remainder_file) /\ is_some(draw.remainder_rank)
        THEN {f \in figures : (f.coord.file = unwrap(draw.remainder_file))
                              /\ (f.coord.rank = unwrap(draw.remainder_rank))}
        ELSE IF is_some(draw.remainder_file)
        THEN {f \in figures : f.coord.file = unwrap(draw.remainder_file)}
        ELSE {f \in figures : f.coord.rank = unwrap(draw.remainder_rank)}
  IN Kept(figs, IF Cardinality(figs) = 1 THEN Resolved(figs, figs, 2)
                 ELSE filter_on_moves(figs, draw, g))

filter_mover(draw, g) ==
  LET figs == {f \in g.figures : (f.color = g.color) /\ (f.piece = draw.piece)}
  IN Kept(figs, IF Cardinality(figs) = 1 THEN Resolved(figs, figs, 1)
                 ELSE filter_on_remainder(figs, draw, g))

\* --------------------------------------------------------------- play_move
\* What one call of play_move leaves: the game as it stands when the call
\* returns or panics; err, "ok" or the place of the panic; and the values of
\* the call's locals (draw, moving_figure, the figure captured, the cascade).
Outcome(g, err, draw, mover, hit, sel) ==
  [game |-> g, err |-> err, draw |-> draw, mover |-> mover, hit |-> hit,
   final |-> sel.final, stage |-> sel.stage, kept |-> sel.kept]

NoCascade == Resolved({}, {}, 0)

ContainsStr(s, sub) ==
  \E i \in 1..(Len(s) - Len(sub) + 1) : SubSeq(s, i, i + Len(sub) - 1) = sub

\* lines 134-135, 150-151 and 159-160: a figure leaves its square in both views.
take_figure(g, figure) ==
  [g EXCEPT !.position = [@ EXCEPT ![figure.coord.idx] = None],
            !.figures = @ \ {figure}]

\* capture_finds with the rank condition of the en-passant scan left out.
capture_finds_on_file(g, draw, moving_figure) ==
  IF is_some(g.en_passant) /\ (moving_figure.piece = "P")
     /\ (draw.target = unwrap(g.en_passant))
  THEN {f \in g.figures :
          /\ f.color = Color_next(g.color)
          /\ f.coord.x = draw.target.x}
  ELSE {f \in g.figures : f.coord = draw.target}

\* lines 137-157: the figures the scan for the captured figure can return;
\* none makes its unwrap panic.
capture_finds(g, draw, moving_figure) ==
  IF is_some(g.en_passant) /\ (moving_figure.piece = "P")
     /\ (draw.target = unwrap(g.en_passant))
  THEN {f \in g.figures :
          /\ f.color = Color_next(g.color)
          /\ f.coord.x = draw.target.x
          /\ f.coord.y = draw.target.y + Color_factor(Color_next(g.color))}
  ELSE {f \in g.figures : f.coord = draw.target}

\* lines 163-175: the promoted figure or the relocated mover takes the target.
place_mover(g, draw, moving_figure) ==
  LET placed == IF draw.is_promo
                THEN [color |-> g.color, coord |-> draw.target,
                      piece |-> unwrap(draw.promoted_piece)]
                ELSE Figure_move_to(moving_figure, draw.target)
  IN [g EXCEPT !.position = [@ EXCEPT ![placed.coord.idx] = Some(placed)],
               !.figures = @ \cup {placed}]

\* line 182: the index of the square behind the target.
ep_index(g, draw) == draw.target.idx + Color_factor(g.color) * 8

\* lines 178-194, once ep_index is on the board.
update_en_passant(g, draw, moving_figure) ==
  IF (moving_figure.piece = "P") /\ (abs(moving_figure.coord.y - draw.target.y) = 2)
  THEN LET ep_coord == board[ep_index(g, draw)]
           ep_candidates == {f \in g.figures :
                               /\ f.color = Color_next(g.color)
                               /\ f.piece = "P"
                               /\ f.coord.y = draw.target.y
                               /\ abs(f.coord.x - draw.target.x) = 1}
       IN [g EXCEPT !.en_passant = IF ep_candidates # {} THEN Some(ep_coord) ELSE None]
  ELSE [g EXCEPT !.en_passant = None]

\* lines 197-203
uci_of(draw, moving_figure) ==
  Coord_to_string(moving_figure.coord) \o Coord_to_string(draw.target)
    \o (IF draw.is_promo THEN <<Piece_to_char(unwrap(draw.promoted_piece), Color_B)>>
        ELSE <<>>)

\* finish_move resetting the half-move clock on captures only.
finish_move_hit_only(g, draw, moving_figure) ==
  [g EXCEPT !.uci = uci_of(draw, moving_figure),
            !.half_move_clock = IF draw.is_hit THEN 0 ELSE @ + 1,
            !.full_move_clock = IF g.color = Color_B THEN @ + 1 ELSE @,
            !.color = Color_next(g.color)]

\* finish_move counting a full move after the move of either side.
finish_move_counts_every_ply(g, draw, moving_figure) ==
  [g EXCEPT !.uci = uci_of(draw, moving_figure),
            !.half_move_clock = IF draw.is_hit \/ (draw.piece = "P") THEN 0 ELSE @ + 1,
            !.full_move_clock = @ + 1,
            !.color = Color_next(g.color)]

\* finish_move assigning the rights of Castling::new() to the game.
finish_move_resets_rights(g, draw, moving_figure) ==
  [g EXCEPT !.uci = uci_of(draw, moving_figure),
            !.half_move_clock = IF draw.is_hit \/ (draw.piece = "P") THEN 0 ELSE @ + 1,
            !.full_move_clock = IF g.color = Color_B THEN @ + 1 ELSE @,
            !.color = Color_next(g.color),
            !.castling = Castling_new]

\* lines 206-216.  The value Castling::update returns is not assigned, so the
\* rights of the game stay as they are.
finish_move(g, draw, moving_figure) ==
  [g EXCEPT !.uci = uci_of(draw, moving_figure),
            !.half_move_clock = IF draw.is_hit \/ (draw.piece = "P") THEN 0 ELSE @ + 1,
            !.full_move_clock = IF g.color = Color_B THEN @ + 1 ELSE @,
            !.color = Color_next(g.color)]

\* The ordinary branch from line 163 on, the capture (if any) done.
play_placed(g, draw, moving_figure, hit, sel) ==
  IF draw.is_promo /\ is_none(draw.promoted_piece)
  THEN Outcome(g, "promotion", Some(draw), Some(moving_figure), hit, sel)
  ELSE LET g3 == place_mover(g, draw, moving_figure)
       IN IF (moving_figure.piece = "P")
             /\ (abs(moving_figure.coord.y - draw.target.y) = 2)
             /\ ~valid_idx(ep_index(g3, draw))
          THEN Outcome([g3 EXCEPT !.en_passant = None], "index",
                       Some(draw), Some(moving_figure), hit, sel)
          ELSE Outcome(finish_move(update_en_passant(g3, draw, moving_figure),
                                   draw, moving_figure),
                       "ok", Some(draw), Some(moving_figure), hit, sel)

\* The ordinary branch from line 133 on, the mover resolved.
play_resolved(g, draw, moving_figure, sel) ==
  LET g1 == take_figure(g, moving_figure)
      finds == capture_finds(g1, draw, moving_figure)
  IN IF ~draw.is_hit THEN {play_placed(g1, draw, moving_figure, None, sel)}
     ELSE IF finds = {}
     THEN {Outcome(g1, "capture", Some(draw), Some(moving_figure), None, sel)}
     ELSE {play_placed(take_figure(g1, hit_figure), draw, moving_figure,
                       Some(hit_figure), sel) : hit_figure \in finds}

\* The ordinary branch from line 130 on, given what Draw::from_str returned.
play_parsed(g, parsed) ==
  IF is_none(parsed) THEN {Outcome(g, "token", None, None, None, NoCascade)}
  ELSE LET draw == unwrap(parsed)
           sel == filter_mover(draw, g)
       IN IF sel.movers = {}
          THEN {Outcome(g, "mover", parsed, None, None, sel)}
          ELSE UNION {play_resolved(g, draw, m, sel) : m \in sel.movers}

\* play_draw clearing the en-passant target before the token is parsed and the
\* mover resolved, so that a call failing there has already cleared it.
play_draw_clears_first(g, mv) ==
  {IF o.err \in {"token", "mover"} THEN [o EXCEPT !.game.en_passant = None] ELSE o :
     o \in play_parsed(g, Draw_from(mv))}

\* The ordinary branch of play_move (lines 128-216).
play_draw(g, mv) == play_parsed(g, Draw_from(mv))

\* castle with the targets of king and rook exchanged.
castle_targets_exchanged(g, mv) ==
  LET long == ContainsStr(mv, <<"O", "-", "O", "-", "O">>)
      king_src == IF g.color = Color_B THEN 4 ELSE 60
      rook_src == IF g.color = Color_B THEN (IF long THEN 0 ELSE 7)
                  ELSE (IF long THEN 56 ELSE 63)
      king_tgt == IF g.color = Color_B THEN (IF long THEN 3 ELSE 5)
                  ELSE (IF long THEN 59 ELSE 61)
      rook_tgt == IF g.color = Color_B THEN (IF long THEN 2 ELSE 6)
                  ELSE (IF long THEN 58 ELSE 62)
      uci == IF g.color = Color_B
             THEN (IF long THEN <<"e", "8", "c", "8">> ELSE <<"e", "8", "g", "8">>)
             ELSE (IF long THEN <<"e", "1", "c", "1">> ELSE <<"e", "1", "g", "1">>)
      g1 == [g EXCEPT !.uci = uci]
  IN IF is_none(g.position[king_src]) \/ is_none(g.position[rook_src])
     THEN {Outcome(g1, "castle", None, None, None, NoCascade)}
     ELSE LET king == unwrap(g.position[king_src])
              rook == unwrap(g.position[rook_src])
              new_king == Figure_move_to(king, board[king_tgt])
              new_rook == Figure_move_to(rook, board[rook_tgt])
              g2 == [g1 EXCEPT
                       !.figures = (((@ \ {king}) \ {rook}) \cup {new_king}) \cup {new_rook},
                       !.position = [[[[@ EXCEPT ![king_src] = None]
                                          EXCEPT ![rook_src] = None]
                                          EXCEPT ![king_tgt] = Some(new_king)]
                                          EXCEPT ![rook_tgt] = Some(new_rook)],
                       !.half_move_clock = @ + 1,
                       !.full_move_clock = IF g.color = Color_B THEN @ + 1 ELSE @,
                       !.color = Color_next(g.color)]
          IN {Outcome(g2, "ok", None, Some(king), None, NoCascade)}

\* Game::castle.  The recorded move is written first; the value
\* Castling::castle returns is not assigned.
castle(g, mv) ==
  LET long == ContainsStr(mv, <<"O", "-", "O", "-", "O">>)
      king_src == IF g.color = Color_B THEN 4 ELSE 60
      rook_src == IF g.color = Color_B THEN (IF long THEN 0 ELSE 7)
                  ELSE (IF long THEN 56 ELSE 63)
      king_tgt == IF g.color = Color_B THEN (IF long THEN 2 ELSE 6)
                  ELSE (IF long THEN 58 ELSE 62)
      rook_tgt == IF g.color = Color_B THEN (IF long THEN 3 ELSE 5)
                  ELSE (IF long THEN 59 ELSE 61)
      uci == IF g.color = Color_B
             THEN (IF long THEN <<"e", "8", "c", "8">> ELSE <<"e", "8", "g", "8">>)
             ELSE (IF long THEN <<"e", "1", "c", "1">> ELSE <<"e", "1", "g", "1">>)
      g1 == [g EXCEPT !.uci = uci]
  IN IF is_none(g.position[king_src]) \/ is_none(g.position[rook_src])
     THEN {Outcome(g1, "castle", None, None, None, NoCascade)}
     ELSE LET king == unwrap(g.position[king_src])
              rook == unwrap(g.position[rook_src])
              new_king == Figure_move_to(king, board[king_tgt])
              new_rook == Figure_move_to(rook, board[rook_tgt])
              g2 == [g1 EXCEPT
                       !.figures = (((@ \ {king}) \ {rook}) \cup {new_king}) \cup {new_rook},
                       !.position = [[[[@ EXCEPT ![king_src] = None]
                                          EXCEPT ![rook_src] = None]
                                          EXCEPT ![king_tgt] = Some(new_king)]
                                          EXCEPT ![rook_tgt] = Some(new_rook)],
                       !.half_move_clock = @ + 1,
                       !.full_move_clock = IF g.color = Color_B THEN @ + 1 ELSE @,
                       !.color = Color_next(g.color)]
          IN {Outcome(g2, "ok", None, Some(king), None, NoCascade)}

\* Game::play_move: every outcome one call can have.
play_move(g, mv) ==
  IF ContainsStr(mv, <<"O", "-", "O">>) THEN castle(g, mv) ELSE play_draw(g, mv)

\* ------------------------------------------------------------ the machine
\* The parsed position strings a game starts from, besides Game::new().
\* r3k2r/8/8/8/8/8/8/R3K2R w KQkq - 0 1
FenCastling ==
  <<"r", "3", "k", "2", "r", "/", "8", "/", "8", "/", "8", "/", "8", "/", "8", "/",
    "8", "/", "R", "3", "K", "2", "R", " ", "w", " ", "K", "Q", "k", "q", " ", "-",
    " ", "0", " ", "1">>

\* 4k3/8/8/8/1p1p4/8/P1P5/2K5 w - - 0 1
FenEnPassant ==
  <<"4", "k", "3", "/", "8", "/", "8", "/", "8", "/", "1", "p", "1", "p", "4", "/",
    "8", "/", "P", "1", "P", "5", "/", "2", "K", "5", " ", "w", " ", "-", " ", "-",
    " ", "0", " ", "1">>

\* 4k3/P7/8/1p6/8/8/7p/4K3 w - - 0 1
FenPromotion ==
  <<"4", "k", "3", "/", "P", "7", "/", "8", "/", "1", "p", "6", "/", "8", "/", "8",
    "/", "7", "p", "/", "4", "K", "3", " ", "w", " ", "-", " ", "-", " ", "0", " ",
    "1">>

\* k7/8/q1q3q1/1PP5/8/8/RR6/KN5B b - - 0 1
FenPinnedQueen ==
  <<"k", "7", "/", "8", "/", "q", "1", "q", "3", "q", "1", "/", "1", "P", "P", "5",
    "/", "8", "/", "8", "/", "R", "R", "6", "/", "K", "N", "5", "B", " ", "b", " ",
    "-", " ", "-", " ", "0", " ", "1">>

\* 4k3/4r3/8/8/8/8/R6R/4K3 w - - 3 10
FenTwoRooks ==
  <<"4", "k", "3", "/", "4", "r", "3", "/", "8", "/", "8", "/", "8", "/", "8", "/",
    "R", "6", "R", "/", "4", "K", "3", " ", "w", " ", "-", " ", "-", " ", "3", " ",
    "1", "0">>

\* 4k3/8/8/8/8/2N5/1P6/4K3 w - - 0 1
FenOwnKnight ==
  <<"4", "k", "3", "/", "8", "/", "8", "/", "8", "/", "8", "/", "2", "N", "5", "/",
    "1", "P", "6", "/", "4", "K", "3", " ", "w", " ", "-", " ", "-", " ", "0", " ",
    "1">>

\* r3k2r/8/8/8/3Pp3/8/8/R3K2R b KQkq d3 0 1
FenCastlingTarget ==
  <<"r", "3", "k", "2", "r", "/", "8", "/", "8", "/", "8", "/", "3", "P", "p", "3",
    "/", "8", "/", "8", "/", "R", "3", "K", "2", "R", " ", "b", " ", "K", "Q", "k",
    "q", " ", "d", "3", " ", "0", " ", "1">>

\* 4k3/8/p7/8/8/8/8/4K3 b - - 0 1
FenPawnOnSixth ==
  <<"4", "k", "3", "/", "8", "/", "p", "7", "/", "8", "/", "8", "/", "8", "/", "8",
    "/", "4", "K", "3", " ", "b", " ", "-", " ", "-", " ", "0", " ", "1">>

StartFens ==
  {FenCastling, FenEnPassant, FenPromotion, FenPinnedQueen, FenTwoRooks, FenOwnKnight,
   FenCastlingTarget, FenPawnOnSixth}

Tokens ==
  { <<"e", "4">>, <<"e", "5">>, <<"N", "c", "3">>, <<"N", "f", "6">>,
    <<"K", "e", "2">>, <<"Q", "d", "6">>, <<"x", "d", "6">>, <<"O", "-", "O">>,
    <<"O", "-", "O", "-", "O">>, <<"R", "b", "1">>, <<"R", "g", "1">>, <<"K", "e", "7">>,
    <<"c", "4">>, <<"a", "4">>, <<"a", "3">>, <<"b", "x", "c", "3">>,
    <<"d", "x", "c", "3">>, <<"x", "c", "3">>, <<"b", "x", "a", "3">>, <<"b", "x", "c", "3", "=", "Q">>,
    <<"a", "8", "=", "Q">>, <<"h", "1", "=", "N">>, <<"a", "8", "=">>, <<"a", "5">>,
    <<"Q", "b", "7">>, <<"Q", "g", "g", "2">>, <<"R", "d", "2">>, <<"R", "a", "d", "2">>,
    <<"R", "e", "2">>, <<"R", "a", "2", "d", "2">>, <<"5", "b", "4">>,
    <<"z", "z">> }

\* The number of play_move calls made on one game.
MaxPly == 2

VARIABLES
  game,    \* the live Game
  before,  \* the Game as it was when the last call of play_move began
  call,    \* the last call of play_move: its token and what Outcome records
  ply,     \* the number of calls made
  twin,    \* a second, independent run fed the same tokens: its Game and err
  start,   \* the Game the run began with
  probe    \* one application of a conversion: its name, its input, whether it
           \* has been applied, and what it gave

vars == <<game, before, call, ply, twin, start, probe>>

NoProbe == [op |-> "none", input |-> <<>>, done |-> FALSE, output |-> <<>>]

NoCall ==
  [mv |-> <<>>, err |-> "ok", draw |-> None, mover |-> None, hit |-> None,
   final |-> {}, stage |-> 0, kept |-> <<>>]

CallOf(mv, o) ==
  [mv |-> mv, err |-> o.err, draw |-> o.draw, mover |-> o.mover, hit |-> o.hit,
   final |-> o.final, stage |-> o.stage, kept |-> o.kept]

StartGames == {Game_new} \cup {unwrap(Game_from_str(fen)) : fen \in StartFens}

Init ==
  /\ game \in StartGames
  /\ before = game
  /\ call = NoCall
  /\ ply = 0
  /\ twin = [game |-> game, err |-> "ok"]
  /\ start = game
  /\ probe = NoProbe

\* One call game.play_move(mv) in each of the two runs.  A call that panicked
\* ends the run.
PlayMove(mv) ==
  /\ call.err = "ok"
  /\ twin.err = "ok"
  /\ ply < MaxPly
  /\ \E o \in play_move(game, mv) :
       /\ game' = o.game
       /\ call' = CallOf(mv, o)
  /\ \E o2 \in play_move(twin.game, mv) :
       twin' = [game |-> o2.game, err |-> o2.err]
  /\ before' = game
  /\ ply' = ply + 1
  /\ UNCHANGED <<start, probe>>

Next == \E mv \in Tokens : PlayMove(mv)

Spec == Init /\ [][Next]_vars

\* ---------------------------------------------- the conversions, one by one
\* rnbqkbnr/pppppppp/8/8/8/8/PPPPPPPP/RNBQKBNR w KQkq - 0 1
FenStart ==
  <<"r", "n", "b", "q", "k", "b", "n", "r", "/", "p", "p", "p", "p", "p", "p", "p",
    "p", "/", "8", "/", "8", "/", "8", "/", "8", "/", "P", "P", "P", "P", "P", "P",
    "P", "P", "/", "R", "N", "B", "Q", "K", "B", "N", "R", " ", "w", " ", "K", "Q",
    "k", "q", " ", "-", " ", "0", " ", "1">>

\* 5rk1/1b2n1pp/4R3/1p3pN1/2pP4/r5PP/P4P2/2RQ2Kq w - - 1 24
FenLichess ==
  <<"5", "r", "k", "1", "/", "1", "b", "2", "n", "1", "p", "p", "/", "4", "R", "3",
    "/", "1", "p", "3", "p", "N", "1", "/", "2", "p", "P", "4", "/", "r", "5", "P",
    "P", "/", "P", "4", "P", "2", "/", "2", "R", "Q", "2", "K", "q", " ", "w", " ",
    "-", " ", "-", " ", "1", " ", "2", "4">>

RECURSIVE join_from(_, _)
\* The parts from the k-th on, joined by single spaces.
join_from(parts, k) ==
  IF k > Len(parts) THEN <<>>
  ELSE IF k = Len(parts) THEN parts[k]
  ELSE parts[k] \o <<" ">> \o join_from(parts, k + 1)

join_spaces(parts) == join_from(parts, 1)

\* The fields canonical position strings are built from.
Placements ==
  {split_spaces(fen)[1] : fen \in StartFens \cup {FenStart, FenLichess}}

SideTexts == {<<"w">>, <<"b">>}

RightsTexts ==
  {<<"-">>, <<"K">>, <<"Q">>, <<"k">>, <<"q">>,
   <<"K", "Q">>, <<"K", "k">>, <<"K", "q">>, <<"Q", "k">>, <<"Q", "q">>, <<"k", "q">>,
   <<"K", "Q", "k">>, <<"K", "Q", "q">>, <<"K", "k", "q">>, <<"Q", "k", "q">>,
   <<"K", "Q", "k", "q">>}

EnPassantTexts == {<<"-">>, <<"e", "3">>, <<"c", "6">>}

\* Clocks a u16 holds, the largest among them.
HalfMoveTextsU16 == {<<"0">>, <<"1">>, <<"5", "0">>, <<"6", "5", "5", "3", "5">>}
FullMoveTextsU16 == {<<"1">>, <<"2", "4">>}

\* One more than the largest u16.
ClockTextBeyondU16 == <<"6", "5", "5", "3", "6">>

CanonicalFensU16 ==
  {join_spaces(<<p, s, r, e, h, f>>) :
     p \in Placements, s \in SideTexts, r \in RightsTexts, e \in EnPassantTexts,
     h \in HalfMoveTextsU16, f \in FullMoveTextsU16}

CanonicalFens ==
  CanonicalFensU16
    \cup {join_spaces(<<p, s, <<"-">>, <<"-">>, ClockTextBeyondU16, f>>) :
            p \in Placements, s \in SideTexts, f \in FullMoveTextsU16}

\* Six fields that parse but are not written the canonical way: runs of empty
\* squares split in two, rights out of order, clocks with a sign or a leading
\* zero.
LooseFens ==
  {join_spaces(<<<<"r", "3", "k", "2", "r", "/", "8", "/", "8", "/", "8", "/", "8", "/", "8", "/", "8", "/", "R", "1", "2", "K", "1", "1", "R">>, <<"w">>, <<"-">>, <<"-">>, <<"0">>, <<"1">> >>),
   join_spaces(<<split_spaces(FenCastling)[1], <<"w">>, <<"q", "K">>, <<"-">>, <<"0">>, <<"1">> >>),
   join_spaces(<<split_spaces(FenCastling)[1], <<"b">>, <<"-">>, <<"-">>, <<"+", "5">>, <<"1">> >>),
   join_spaces(<<split_spaces(FenCastling)[1], <<"b">>, <<"-">>, <<"-">>, <<"0">>, <<"0", "7">> >>)}

\* Strings with fewer or more than six fields, or a clock that is no integer.
MalformedFens ==
  {<<>>,
   split_spaces(FenStart)[1],
   join_spaces(SubSeq(split_spaces(FenStart), 1, 5)),
   FenStart \o <<" ", "e", "x", "t", "r", "a">>,
   FenStart \o <<" ">>,
   join_spaces(<<split_spaces(FenStart)[1], <<"w">>, <<>>, <<"K", "Q", "k", "q">>, <<"-">>, <<"0">>, <<"1">> >>),
   join_spaces(<<split_spaces(FenStart)[1], <<"w">>, <<"-">>, <<"-">>, <<"x">>, <<"1">> >>),
   join_spaces(<<split_spaces(FenStart)[1], <<"w">>, <<"-">>, <<"-">>, <<"0">>, <<"1", ".", "5">> >>),
   join_spaces(<<split_spaces(FenStart)[1], <<"w">>, <<"-">>, <<"-">>, <<"0">>, <<>> >>)}

FenInputs == (CanonicalFens \cup LooseFens) \cup MalformedFens

\* The texts of the 64 squares.
SquareTexts == {<<f, r>> : f \in {"a", "b", "c", "d", "e", "f", "g", "h"},
                          r \in {"1", "2", "3", "4", "5", "6", "7", "8"}}

\* Texts that name no square: too short, too long, a file or a rank next to
\* or far from the valid range on either side.
OtherCoordTexts ==
  {<<>>, <<"a">>, <<"a", "1", "1">>, <<"e", "4", " ">>,
   <<"i", "1">>, <<"z", "4">>, <<"A", "1">>, <<"E", "4">>, <<"BTICK", "5">>,
   <<"a", "9">>, <<"h", ":">>, <<"a", "0">>, <<"h", "0">>, <<"c", "/">>,
   <<"1", "a">>, <<"-", "-">>}

CoordInputs == SquareTexts \cup OtherCoordTexts

\* Indexes (i8) that are not on the board: below 0 and from 64 on.
OtherIdxInputs == {-128, -65, -64, -9, -8, -7, -2, -1, 64, 65, 72, 127}

IdxInputs == (0..63) \cup OtherIdxInputs

\* The parts well-formed tokens are built from, each optional part as an
\* Option: piece letter, disambiguating file and rank, capture mark, target,
\* promoted kind, check or mate mark.
TokenParts ==
  [piece : {None, <<"N">>, <<"B">>, <<"R">>, <<"Q">>, <<"K">>},
   file : {None, <<"a">>, <<"e">>, <<"h">>},
   rank : {None, <<"1">>, <<"4">>, <<"8">>},
   hit : {None, <<"x">>},
   target : {<<"a", "1">>, <<"e", "4">>, <<"c", "6">>, <<"h", "8">>},
   promo : {None, <<"N">>},
   mark : {None, <<"#">>}]

\* The token of these parts:
\* [piece]? [file]? [rank]? [x]? target [=promo]? [+|#]?
SanOf(parts) ==
  parts.piece \o parts.file \o parts.rank \o parts.hit \o parts.target
    \o (IF is_some(parts.promo) THEN <<"=">> \o parts.promo ELSE <<>>)
    \o parts.mark

\* The 16 combinations of the four rights.
CastlingInputs ==
  [white_kingside : BOOLEAN, white_queenside : BOOLEAN,
   black_kingside : BOOLEAN, black_queenside : BOOLEAN]

Pending(op, input) == [op |-> op, input |-> input, done |-> FALSE, output |-> <<>>]

\* One conversion is picked with its input; the Game is a fresh Game::new().
InitConversions ==
  /\ game = Game_new
  /\ before = game
  /\ call = NoCall
  /\ ply = 0
  /\ twin = [game |-> game, err |-> "ok"]
  /\ start = game
  /\ \/ probe = Pending("Game::new", <<>>)
     \/ \E fen \in FenInputs : probe = Pending("Game::from_str", fen)
     \/ \E field \in CoordInputs : probe = Pending("Coord::from", field)
     \/ \E idx \in IdxInputs : probe = Pending("Coord::from_idx", idx)
     \/ \E c \in CastlingInputs : probe = Pending("Castling::to_string", c)
     \/ \E parts \in TokenParts : probe = Pending("Draw::from", parts)

Applied(output) == [probe EXCEPT !.done = TRUE, !.output = output]

NewGame ==
  /\ probe.op = "Game::new"
  /\ ~probe.done
  /\ probe' = Applied(Some(Game_new))
  /\ UNCHANGED <<game, before, call, ply, twin, start>>

ParseGame ==
  /\ probe.op = "Game::from_str"
  /\ ~probe.done
  /\ probe' = Applied(Game_from_str(probe.input))
  /\ UNCHANGED <<game, before, call, ply, twin, start>>

MakeCoord ==
  /\ probe.op = "Coord::from"
  /\ ~probe.done
  /\ probe' = Applied(Coord_from(probe.input))
  /\ UNCHANGED <<game, before, call, ply, twin, start>>

MakeCoordFromIdx ==
  /\ probe.op = "Coord::from_idx"
  /\ ~probe.done
  /\ probe' = Applied(Coord_from_idx(probe.input))
  /\ UNCHANGED <<game, before, call, ply, twin, start>>

RenderCastling ==
  /\ probe.op = "Castling::to_string"
  /\ ~probe.done
  /\ probe' = Applied(Castling_to_string(probe.input))
  /\ UNCHANGED <<game, before, call, ply, twin, start>>

ParseToken ==
  /\ probe.op = "Draw::from"
  /\ ~probe.done
  /\ probe' = Applied(Draw_from(SanOf(probe.input)))
  /\ UNCHANGED <<game, before, call, ply, twin, start>>

NextConversions ==
  \/ NewGame
  \/ ParseGame
  \/ MakeCoord
  \/ MakeCoordFromIdx
  \/ RenderCastling
  \/ ParseToken

SpecConversions == InitConversions /\ [][NextConversions]_vars

\* A conversion has been applied.
Did(op) == (probe.op = op) /\ probe.done

\* --------------------------------------- the movement rules, one by one
\* 4k3/8/8/2pP4/8/8/8/4K3 w - c6 0 2
FenWithTarget ==
  <<"4", "k", "3", "/", "8", "/", "8", "/", "2", "p", "P", "4", "/", "8", "/", "8",
    "/", "8", "/", "4", "K", "3", " ", "w", " ", "-", " ", "c", "6", " ", "0", " ",
    "2">>

\* The Games the movement rules are asked about, before the figure is set.
MoveGames ==
  {Game_new, unwrap(Game_from_str(FenLichess)), unwrap(Game_from_str(FenWithTarget))}

\* The Game g with the figure fig standing on its square, in both views.
Place(g, fig) ==
  [g EXCEPT !.position = [@ EXCEPT ![fig.coord.idx] = Some(fig)],
            !.figures = (@ \ {f \in g.figures : f.coord = fig.coord}) \cup {fig}]

\* A figure of one of the kinds on any of the 64 squares.
MoveFigures(kinds) ==
  {[color |-> c, coord |-> board[i], piece |-> k] :
     c \in {Color_W, Color_B}, i \in 0..63, k \in kinds}

\* One movement rule is picked with a figure, which stands in the Game.
InitMovement ==
  /\ \E g \in MoveGames :
       \/ \E fig \in MoveFigures({"P"}) :
            /\ game = Place(g, fig)
            /\ probe \in {Pending("get_pawn_moves", fig), Pending("get_pawn_hits", fig)}
       \/ \E fig \in MoveFigures({"N"}) :
            /\ game = Place(g, fig)
            /\ probe = Pending("get_knight_moves", fig)
       \/ \E fig \in MoveFigures({"B"}) :
            /\ game = Place(g, fig)
            /\ probe = Pending("get_bishop_moves", fig)
       \/ \E fig \in MoveFigures({"R"}) :
            /\ game = Place(g, fig)
            /\ probe = Pending("get_rook_moves", fig)
       \/ \E fig \in MoveFigures({"K"}) :
            /\ game = Place(g, fig)
            /\ probe = Pending("get_king_moves", fig)
  /\ before = game
  /\ call = NoCall
  /\ ply = 0
  /\ twin = [game |-> game, err |-> "ok"]
  /\ start = game

PawnMoves ==
  /\ probe.op = "get_pawn_moves"
  /\ ~probe.done
  /\ probe' = Applied(get_pawn_moves(probe.input, game))
  /\ UNCHANGED <<game, before, call, ply, twin, start>>

PawnHits ==
  /\ probe.op = "get_pawn_hits"
  /\ ~probe.done
  /\ probe' = Applied(get_pawn_hits(probe.input, game))
  /\ UNCHANGED <<game, before, call, ply, twin, start>>

KnightMoves ==
  /\ probe.op = "get_knight_moves"
  /\ ~probe.done
  /\ probe' = Applied(get_knight_moves(probe.input, game))
  /\ UNCHANGED <<game, before, call, ply, twin, start>>

BishopMoves ==
  /\ probe.op = "get_bishop_moves"
  /\ ~probe.done
  /\ probe' = Applied(get_bishop_moves(probe.input, game))
  /\ UNCHANGED <<game, before, call, ply, twin, start>>

RookMoves ==
  /\ probe.op = "get_rook_moves"
  /\ ~probe.done
  /\ probe' = Applied(get_rook_moves(probe.input, game))
  /\ UNCHANGED <<game, before, call, ply, twin, start>>

KingMoves ==
  /\ probe.op = "get_king_moves"
  /\ ~probe.done
  /\ probe' = Applied(get_king_moves(probe.input, game))
  /\ UNCHANGED <<game, before, call, ply, twin, start>>

NextMovement ==
  \/ PawnMoves
  \/ PawnHits
  \/ KnightMoves
  \/ BishopMoves
  \/ RookMoves
  \/ KingMoves

SpecMovement == InitMovement /\ [][NextMovement]_vars

\* The squares (as indexes) a movement rule returned.
Destinations == {probe.output[k] : k \in 1..Len(probe.output)}

\* The square of file x (0..7 for a..h) and rank y (0..7 for 1..8), if on the
\* board, as a set of at most one index.
At(x, y) == IF (x \in 0..7) /\ (y \in 0..7) THEN {x + 8 * (7 - y)} ELSE {}

\* The square is empty, or holds a figure of the other color than fig.
Empty(sq) == is_none(game.position[sq])
HoldsEnemy(sq, fig) ==
  is_some(game.position[sq]) /\ (unwrap(game.position[sq]).color # fig.color)

\* ------------------------------------------------------------- properties
\* What the last call was.
Returned == (ply > 0) /\ (call.err = "ok")
IsCastlingCall == ContainsStr(call.mv, <<"O", "-", "O">>)
Ordinary == Returned /\ ~IsCastlingCall
Mover == unwrap(call.mover)
Target == unwrap(call.draw).target

\* The square of file x and rank index y.
SquareAt(x, y) == CHOOSE c \in {board[i] : i \in 0..63} : (c.x = x) /\ (c.y = y)

\* C1: whenever every call of play_move so far has returned, a figure is in the
\* figure set exactly if the slot of its coordinate in the position array holds
\* that figure.
C1_PositionMatchesFigures ==
  Returned =>
    /\ \A f \in game.figures : game.position[f.coord.idx] = Some(f)
    /\ \A i \in 0..63 :
         is_some(game.position[i]) => unwrap(game.position[i]) \in game.figures

\* C2: a call whose cascade ran through its last stage with more than one
\* candidate left fails, and no candidate is taken as the mover.
C2_AmbiguousMoverFails ==
  ((ply > 0) /\ is_some(call.draw) /\ (Cardinality(call.final) > 1)) =>
    ((call.err # "ok") /\ is_none(call.mover))

\* C3: a call whose cascade ended with no candidate left fails at the
\* resolution of the mover, and no figure has been moved or removed.
C3_NoCandidateFails ==
  ((ply > 0) /\ is_some(call.draw) /\ (call.final = {})) =>
    /\ call.err = "mover"
    /\ game.position = before.position
    /\ game.figures = before.figures

\* A call whose token named a kind the mover's side has figures of, all of
\* which the cascade eliminated.
C3_Witness ==
  /\ ply > 0
  /\ is_some(call.draw)
  /\ call.final = {}
  /\ call.stage = 4
  /\ call.err = "mover"
  /\ Cardinality({f \in before.figures :
                    (f.color = before.color) /\ (f.piece = unwrap(call.draw).piece)}) > 1

\* C4: a call that failed on an unparsable token or on an unresolvable mover
\* has left every field of the Game as it was.
C4_FailedResolutionKeepsGame ==
  ((ply > 0) /\ (call.err \in {"token", "mover"})) => (game = before)

\* A second call failing at the mover, after a first that set an en-passant
\* target.
C4_Witness ==
  /\ ply = 2
  /\ call.err = "mover"
  /\ is_some(before.en_passant)
  /\ game = before

\* C5: two runs fed the same tokens from the same start show the same position
\* string and the same uci after every call both of them returned from.
C5_RunsAgree ==
  ((ply > 0) /\ (call.err = "ok") /\ (twin.err = "ok")) =>
    /\ Game_to_fen(twin.game) = Game_to_fen(game)
    /\ twin.game.uci = game.uci

\* C6: after a castling call by one color, both rights of that color are
\* cleared and the rights of the other color are as before.
C6_CastlingClearsRights ==
  (Returned /\ IsCastlingCall) =>
    IF before.color = Color_W
    THEN game.castling = [before.castling EXCEPT !.white_kingside = FALSE,
                                                 !.white_queenside = FALSE]
    ELSE game.castling = [before.castling EXCEPT !.black_kingside = FALSE,
                                                 !.black_queenside = FALSE]

\* C7: after an ordinary move, a king move has cleared both rights of the
\* mover's color, a rook move from a home corner the right of that side, and
\* every other right is as before.
C7_OrdinaryMoveUpdatesRights ==
  Ordinary =>
    game.castling =
      IF Mover.piece = "K"
      THEN IF Mover.color = Color_W
           THEN [before.castling EXCEPT !.white_kingside = FALSE, !.white_queenside = FALSE]
           ELSE [before.castling EXCEPT !.black_kingside = FALSE, !.black_queenside = FALSE]
      ELSE IF Mover.piece = "R"
      THEN IF (Mover.color = Color_W) /\ (Coord_to_string(Mover.coord) = <<"h", "1">>)
           THEN [before.castling EXCEPT !.white_kingside = FALSE]
           ELSE IF (Mover.color = Color_W) /\ (Coord_to_string(Mover.coord) = <<"a", "1">>)
           THEN [before.castling EXCEPT !.white_queenside = FALSE]
           ELSE IF (Mover.color = Color_B) /\ (Coord_to_string(Mover.coord) = <<"h", "8">>)
           THEN [before.castling EXCEPT !.black_kingside = FALSE]
           ELSE IF (Mover.color = Color_B) /\ (Coord_to_string(Mover.coord) = <<"a", "8">>)
           THEN [before.castling EXCEPT !.black_queenside = FALSE]
           ELSE before.castling
      ELSE before.castling

\* C8: after an ordinary move the en-passant target is the skipped square if
\* the mover was a pawn that advanced two ranks and an enemy pawn stands on an
\* adjacent file of the destination rank, and is unset in every other case.
C8_EnPassantTarget ==
  Ordinary =>
    LET advanced == /\ Mover.piece = "P"
                    /\ Target.x = Mover.coord.x
                    /\ Target.y = Mover.coord.y + 2 * Color_factor(before.color)
        adjacent == \E f \in game.figures :
                      /\ f.color = Color_next(before.color)
                      /\ f.piece = "P"
                      /\ f.coord.y = Target.y
                      /\ abs(f.coord.x - Target.x) = 1
    IN game.en_passant =
         IF advanced /\ adjacent
         THEN Some(SquareAt(Mover.coord.x, Mover.coord.y + Color_factor(before.color)))
         ELSE None

\* The last call was a capture by a pawn onto the en-passant target.
EnPassantCapture ==
  /\ Ordinary
  /\ unwrap(call.draw).is_hit
  /\ Mover.piece = "P"
  /\ before.en_passant = Some(Target)

\* What C9 says of the figures, placed being the figure the target must hold.
EnPassantRemoval(placed) ==
  /\ is_some(call.hit)
  /\ LET hit == unwrap(call.hit)
     IN /\ hit.color # Mover.color
        /\ hit.coord.x = Target.x
        /\ hit.coord.y = Target.y - Color_factor(Mover.color)
        /\ game.figures = (before.figures \ {Mover, hit}) \cup {placed}
        /\ game.position[Target.idx] = Some(placed)
        /\ \A i \in (0..63) \ {Mover.coord.idx, hit.coord.idx, Target.idx} :
             game.position[i] = before.position[i]

\* C9 as stated: a capture by a pawn onto the en-passant target removes exactly
\* the enemy figure on the target's file one rank behind the target, and the
\* target then holds the capturing pawn; no other figure is removed.
C9_EnPassantCaptureAsStated ==
  EnPassantCapture => EnPassantRemoval(Figure_move_to(Mover, Target))

\* C9: a capture by a pawn onto the en-passant target removes exactly the enemy
\* figure on the target's file one rank behind the target; the target then
\* holds the capturing pawn or, when the token carries a promotion, a figure of
\* the mover's color and the promoted kind; no other figure is removed.
C9_EnPassantCapture ==
  EnPassantCapture =>
    EnPassantRemoval(IF unwrap(call.draw).is_promo
                     THEN [color |-> Mover.color, coord |-> Target,
                           piece |-> unwrap(unwrap(call.draw).promoted_piece)]
                     ELSE Figure_move_to(Mover, Target))

\* An en-passant capture without promotion: the captured pawn stood beside the
\* mover, not on the target.
C9_Witness ==
  /\ EnPassantCapture
  /\ ~unwrap(call.draw).is_promo
  /\ is_none(before.position[Target.idx])
  /\ unwrap(call.hit).piece = "P"
  /\ unwrap(call.hit).coord.y = Mover.coord.y

\* C10: after every returning call the half-move clock is 0 if the call was a
\* pawn move or a capture, and one more than before otherwise, castling
\* included.
C10_HalfMoveClock ==
  Returned =>
    game.half_move_clock =
      IF ~IsCastlingCall /\ ((Mover.piece = "P") \/ is_some(call.hit))
      THEN 0
      ELSE before.half_move_clock + 1

\* A quiet move of a piece from a position whose clock was running.
C10_Witness ==
  /\ Ordinary
  /\ Mover.piece # "P"
  /\ is_none(call.hit)
  /\ before.half_move_clock > 0
  /\ game.half_move_clock = before.half_move_clock + 1

\* C11: every returning call, ordinary or castling, hands the move to the other
\* side and adds one to the full-move clock exactly when Black was the mover;
\* so after n returning calls from Game::new() White is to move iff n is even
\* and the full-move clock is 1 + n / 2 rounded down.
C11_SideAndFullMoveClock ==
  Returned =>
    /\ game.color = Color_next(before.color)
    /\ game.full_move_clock =
         before.full_move_clock + (IF before.color = Color_B THEN 1 ELSE 0)
    /\ (start = Game_new) =>
         /\ (game.color = Color_W) <=> (ply % 2 = 0)
         /\ game.full_move_clock = 1 + (ply \div 2)

\* Two moves played from Game::new(): Black has just moved, White is to move
\* again and the second full move begins.
C11_Witness ==
  /\ Returned
  /\ start = Game_new
  /\ ply = 2
  /\ before.color = Color_B
  /\ game.color = Color_W
  /\ game.full_move_clock = 2

\* The squares of one castling, by name: where king and rook start and end.
CastlingSquares(color, long) ==
  LET rank == IF color = Color_W THEN "1" ELSE "8"
  IN [king_src |-> <<"e", rank>>,
      king_tgt |-> IF long THEN <<"c", rank>> ELSE <<"g", rank>>,
      rook_src |-> IF long THEN <<"a", rank>> ELSE <<"h", rank>>,
      rook_tgt |-> IF long THEN <<"d", rank>> ELSE <<"f", rank>>]

IsLongCastlingCall == ContainsStr(call.mv, <<"O", "-", "O", "-", "O">>)

\* The index of the square a two-character text names.
IndexOf(text) == unwrap(Coord_from(text)).idx

\* What a castling over the squares sq did to the position array.
CastlingRelocates(sq) ==
  /\ is_none(game.position[IndexOf(sq.king_src)])
  /\ is_none(game.position[IndexOf(sq.rook_src)])
  /\ game.position[IndexOf(sq.king_tgt)] =
       Some(Figure_move_to(unwrap(before.position[IndexOf(sq.king_src)]),
                           unwrap(Coord_from(sq.king_tgt))))
  /\ game.position[IndexOf(sq.rook_tgt)] =
       Some(Figure_move_to(unwrap(before.position[IndexOf(sq.rook_src)]),
                           unwrap(Coord_from(sq.rook_tgt))))
  /\ \A i \in 0..63 :
       (i \notin {IndexOf(sq.king_src), IndexOf(sq.king_tgt),
                  IndexOf(sq.rook_src), IndexOf(sq.rook_tgt)})
         => (game.position[i] = before.position[i])
  /\ game.figures =
       (before.figures \ {unwrap(before.position[IndexOf(sq.king_src)]),
                          unwrap(before.position[IndexOf(sq.rook_src)])})
         \cup {unwrap(game.position[IndexOf(sq.king_tgt)]),
               unwrap(game.position[IndexOf(sq.rook_tgt)])}
  /\ game.uci = sq.king_src \o sq.king_tgt

\* C12: a returning castling call moves the figure on the king's home square
\* (e1 or e8) to g1/g8 or, castling long, c1/c8, and the figure on the rook's
\* corner (h or a file) to f1/f8 or d1/d8; both source squares are empty
\* afterwards, no other square of the position array changes, the figure set
\* changes by the same two figures, and uci is the king's source and target.
C12_CastlingRelocation ==
  (Returned /\ IsCastlingCall) =>
    CastlingRelocates(CastlingSquares(before.color, IsLongCastlingCall))

\* Black castles long with king e8 and rook a8 at home: the king stands on c8,
\* the rook on d8.
C12_Witness ==
  /\ Returned
  /\ IsLongCastlingCall
  /\ before.color = Color_B
  /\ unwrap(before.position[4]).piece = "K"
  /\ unwrap(before.position[0]).piece = "R"
  /\ game.uci = <<"e", "8", "c", "8">>
  /\ unwrap(game.position[2]).piece = "K"
  /\ unwrap(game.position[3]).piece = "R"

\* The figures of one color in a figure set.
FiguresOf(figures, color) == {f \in figures : f.color = color}

\* C13: after a returning call with a promotion token the mover's source square
\* is empty, the target square holds a figure of the mover's color of the kind
\* the token names behind "=", which is not a pawn, and the figure set has as
\* many figures of the mover's color as before.
C13_Promotion ==
  (Ordinary /\ unwrap(call.draw).is_promo) =>
    /\ is_none(game.position[Mover.coord.idx])
    /\ game.position[Target.idx] =
         Some([color |-> before.color, coord |-> Target,
               piece |-> unwrap(unwrap(call.draw).promoted_piece)])
    /\ unwrap(unwrap(call.draw).promoted_piece) # "P"
    /\ ContainsStr(call.mv,
                   <<"=", Piece_to_char(unwrap(unwrap(call.draw).promoted_piece),
                                        Color_W)>>)
    /\ Cardinality(FiguresOf(game.figures, before.color)) =
         Cardinality(FiguresOf(before.figures, before.color))

\* C14: after a returning ordinary call uci is the mover's source square, then
\* the token's target square, then the lowercase letter of the promoted kind
\* exactly when the token is a promotion; it has 4 or 5 characters, and before
\* the call the source square held a figure of the mover's color.
C14_RecordedMove ==
  Ordinary =>
    /\ game.uci =
         Coord_to_string(Mover.coord) \o Coord_to_string(Target)
           \o (IF unwrap(call.draw).is_promo
               THEN <<Piece_to_char(unwrap(unwrap(call.draw).promoted_piece), Color_B)>>
               ELSE <<>>)
    /\ Len(game.uci) \in {4, 5}
    /\ is_some(before.position[Mover.coord.idx])
    /\ unwrap(before.position[Mover.coord.idx]).color = before.color

\* C15 as stated: every canonical position string (eight ranks of piece letters
\* and run lengths, side w or b, rights in the order K, Q, k, q or "-", an
\* en-passant square or "-", two integer clocks) parses, and rendering the
\* parsed Game gives the string back.
C15_RoundTripAsStated ==
  (Did("Game::from_str") /\ (probe.input \in CanonicalFens)) =>
    /\ is_some(probe.output)
    /\ Game_to_fen(unwrap(probe.output)) = probe.input

\* C15: every canonical position string whose two clocks are at most 65535
\* parses, and rendering the parsed Game gives the string back.
C15_RoundTrip ==
  (Did("Game::from_str") /\ (probe.input \in CanonicalFensU16)) =>
    /\ is_some(probe.output)
    /\ Game_to_fen(unwrap(probe.output)) = probe.input

\* A string with rights, an en-passant square and the largest clock a u16
\* holds has been parsed and renders to itself.
C15_Witness ==
  /\ Did("Game::from_str")
  /\ probe.input \in CanonicalFensU16
  /\ is_some(probe.output)
  /\ is_some(unwrap(probe.output).en_passant)
  /\ unwrap(probe.output).castling.black_queenside
  /\ unwrap(probe.output).half_move_clock = 65535
  /\ Cardinality(unwrap(probe.output).figures) = 21
  /\ Game_to_fen(unwrap(probe.output)) = probe.input

\* C16: Game::new() equals the parse of the standard start string in every
\* field: 32 figures in the position array and the same 32 in the figure set,
\* White to move, all four rights, no en-passant target, half-move clock 0,
\* full-move clock 1 and uci "0000".
C16_NewIsStartPosition ==
  Did("Game::new") =>
    /\ probe.output = Game_from_str(FenStart)
    /\ Cardinality({i \in 0..63 : is_some(unwrap(probe.output).position[i])}) = 32
    /\ Cardinality(unwrap(probe.output).figures) = 32
    /\ unwrap(probe.output).figures = figures_of(unwrap(probe.output).position)
    /\ unwrap(probe.output).color = Color_W
    /\ unwrap(probe.output).castling =
         [white_kingside |-> TRUE, white_queenside |-> TRUE,
          black_kingside |-> TRUE, black_queenside |-> TRUE]
    /\ is_none(unwrap(probe.output).en_passant)
    /\ unwrap(probe.output).half_move_clock = 0
    /\ unwrap(probe.output).full_move_clock = 1
    /\ unwrap(probe.output).uci = <<"0", "0", "0", "0">>

\* Game::new() has been called and the start string parses to a Game with the
\* white king on e1.
C16_Witness ==
  /\ Did("Game::new")
  /\ is_some(Game_from_str(FenStart))
  /\ unwrap(probe.output).position[60] =
       Some([color |-> Color_W, coord |-> board[60], piece |-> "K"])

\* A text that reads as an integer: digits, a sign before them allowed.
IsIntegerText(text) ==
  LET digits == IF (Len(text) > 0) /\ (text[1] \in {"+", "-"}) THEN Tail(text) ELSE text
  IN (Len(digits) > 0) /\ (\A k \in 1..Len(digits) : is_ascii_digit(digits[k]))

\* The number of fields single spaces separate a text into.
FieldCount(text) == 1 + Cardinality({k \in 1..Len(text) : text[k] = " "})

\* The n-th of these fields.
Field(text, n) ==
  LET cuts == {0, Len(text) + 1} \cup {k \in 1..Len(text) : text[k] = " "}
      begin == CHOOSE k \in cuts : Cardinality({j \in cuts : j < k}) = n - 1
      end == CHOOSE k \in cuts : Cardinality({j \in cuts : j < k}) = n
  IN SubSeq(text, begin + 1, end - 1)

\* C17: parsing a position string fails whenever the string does not have
\* exactly 6 space-separated fields or one of its clock fields (the 5th and
\* the 6th) is not an integer; no Game is returned for such a string.
C17_MalformedStringFails ==
  (Did("Game::from_str")
     /\ \/ FieldCount(probe.input) # 6
        \/ ~IsIntegerText(Field(probe.input, 5))
        \/ ~IsIntegerText(Field(probe.input, 6)))
    => is_none(probe.output)

\* C18: on the 64 squares the two constructors are inverse to each other: the
\* square built from an index 0..63, written as text and built again from the
\* text, has that index; the square built from the text of a square, built
\* again from its index, is the same square; and idx = x + 8 * (7 - y).
C18_ConstructorsInverse ==
  /\ (Did("Coord::from_idx") /\ (probe.input \in 0..63)) =>
       /\ is_some(probe.output)
       /\ Coord_from(Coord_to_string(unwrap(probe.output))) = probe.output
       /\ unwrap(probe.output).idx = probe.input
       /\ unwrap(probe.output).idx =
            unwrap(probe.output).x + 8 * (7 - unwrap(probe.output).y)
  /\ (Did("Coord::from") /\ (probe.input \in SquareTexts)) =>
       /\ is_some(probe.output)
       /\ unwrap(probe.output).idx \in 0..63
       /\ Coord_from_idx(unwrap(probe.output).idx) = probe.output
       /\ Coord_to_string(unwrap(probe.output)) = probe.input
       /\ unwrap(probe.output).idx =
            unwrap(probe.output).x + 8 * (7 - unwrap(probe.output).y)

\* Index 63 has given the square h1.
C18_Witness ==
  /\ Did("Coord::from_idx")
  /\ probe.input = 63
  /\ is_some(probe.output)
  /\ Coord_to_string(unwrap(probe.output)) = <<"h", "1">>
  /\ unwrap(probe.output).x = 7
  /\ unwrap(probe.output).y = 0

\* C19: building a square from a text fails for every text that is not a file
\* letter a..h followed by a rank digit 1..8: a wrong length, a file above or
\* below a..h, a rank above or below 1..8.
C19_InvalidTextFails ==
  (Did("Coord::from") /\ (probe.input \notin SquareTexts)) => is_none(probe.output)

\* The letters K, Q, k, q of the rights present in c, in this order.
RightsLetters(c) ==
  SelectSeq(<<"K", "Q", "k", "q">>,
            LAMBDA l : \/ (l = "K") /\ c.white_kingside
                       \/ (l = "Q") /\ c.white_queenside
                       \/ (l = "k") /\ c.black_kingside
                       \/ (l = "q") /\ c.black_queenside)

\* C20: castling rights render as the letters of the rights present, in the
\* order K, Q, k, q, and as "-" exactly when none is present; parsing the
\* rendered text gives the same four flags, for each of the 16 combinations.
C20_RightsRoundTrip ==
  Did("Castling::to_string") =>
    /\ (probe.output = <<"-">>) <=> (RightsLetters(probe.input) = <<>>)
    /\ (RightsLetters(probe.input) # <<>>) => (probe.output = RightsLetters(probe.input))
    /\ Castling_from(probe.output) = probe.input

\* White's queenside and Black's kingside right render as "Qk".
C20_Witness ==
  /\ Did("Castling::to_string")
  /\ probe.input = [white_kingside |-> FALSE, white_queenside |-> TRUE,
                     black_kingside |-> TRUE, black_queenside |-> FALSE]
  /\ probe.output = <<"Q", "k">>
  /\ Castling_from(probe.output) = probe.input

\* C21: every Coord either constructor returns has x and y in 0..7,
\* idx = x + 8 * (7 - y) in 0..63, anti_diagonal = x + y and
\* main_diagonal = 7 + y - x; and from_idx fails for every index outside
\* 0..63, negative or from 64 on.
C21_CoordFieldsInRange ==
  /\ ((Did("Coord::from") \/ Did("Coord::from_idx")) /\ is_some(probe.output)) =>
       /\ unwrap(probe.output).x \in 0..7
       /\ unwrap(probe.output).y \in 0..7
       /\ unwrap(probe.output).idx \in 0..63
       /\ unwrap(probe.output).idx =
            unwrap(probe.output).x + 8 * (7 - unwrap(probe.output).y)
       /\ unwrap(probe.output).anti_diagonal =
            unwrap(probe.output).x + unwrap(probe.output).y
       /\ unwrap(probe.output).main_diagonal =
            7 + unwrap(probe.output).y - unwrap(probe.output).x
  /\ (Did("Coord::from_idx") /\ (probe.input \notin 0..63)) => is_none(probe.output)

\* C22: for a well-formed token (optional piece letter, optional file, optional
\* rank, optional x, target square, optional = and promoted kind, optional + or
\* #) the parser returns the piece named by the leading letter, or Pawn when
\* there is none; the last square of the token as target; the file and rank
\* standing before the target as disambiguators; and the kind after "=" as
\* promoted kind, if there is one.
C22_ParserFields ==
  Did("Draw::from") =>
    /\ is_some(probe.output)
    /\ unwrap(probe.output).san = SanOf(probe.input)
    /\ unwrap(probe.output).piece =
         (IF is_none(probe.input.piece) THEN "P" ELSE unwrap(probe.input.piece))
    /\ Coord_to_string(unwrap(probe.output).target) = probe.input.target
    /\ unwrap(probe.output).target = unwrap(Coord_from(probe.input.target))
    /\ unwrap(probe.output).remainder_file = probe.input.file
    /\ unwrap(probe.output).remainder_rank = probe.input.rank
    /\ unwrap(probe.output).promoted_piece = probe.input.promo

\* "Qa1xh8=N#" has been parsed: a queen, from a1, capturing on h8, promoting
\* to a knight.
C22_Witness ==
  /\ Did("Draw::from")
  /\ SanOf(probe.input) = <<"Q", "a", "1", "x", "h", "8", "=", "N", "#">>
  /\ is_some(probe.output)
  /\ unwrap(probe.output).piece = "Q"
  /\ unwrap(probe.output).remainder_file = <<"a">>
  /\ unwrap(probe.output).remainder_rank = <<"1">>
  /\ Coord_to_string(unwrap(probe.output).target) = <<"h", "8">>
  /\ unwrap(probe.output).promoted_piece = <<"N">>

\* The cascade of the last call went as far as this stage (1 filter_mover,
\* 2 filter_on_remainder, 3 filter_on_moves, 4 filter_on_pins).
StageRan(k) == (ply > 0) /\ (Len(call.kept) >= k)

\* C23: when the disambiguator stage runs it keeps exactly the candidates it
\* was given whose file is the token's disambiguating file, if the token has
\* one, and whose rank is the token's disambiguating rank, if it has one; all
\* of them when it has neither.
C23_DisambiguatorKeeps ==
  StageRan(2) =>
    call.kept[2] =
      {f \in call.kept[1] :
         /\ is_some(unwrap(call.draw).remainder_file)
              => (f.coord.file = unwrap(unwrap(call.draw).remainder_file))
         /\ is_some(unwrap(call.draw).remainder_rank)
              => (f.coord.rank = unwrap(unwrap(call.draw).remainder_rank))}

\* A token with a rank and no file before its target: of two candidates on
\* different ranks the stage kept the one on that rank.
C23_Witness ==
  /\ StageRan(2)
  /\ is_none(unwrap(call.draw).remainder_file)
  /\ is_some(unwrap(call.draw).remainder_rank)
  /\ Cardinality(call.kept[1]) = 2
  /\ Cardinality(call.kept[2]) = 1
  /\ call.err = "ok"

\* C24: when the reachability stage runs it keeps exactly the candidates it
\* was given whose destination set holds the target: the capture destinations
\* for a capture token, the quiet destinations otherwise.  So a pawn it keeps
\* for a capture token does not stand on the target's file, and a pawn it
\* keeps for another token does.
C24_ReachabilityKeeps ==
  StageRan(3) =>
    /\ call.kept[3] =
         {f \in call.kept[2] :
            contains(IF unwrap(call.draw).is_hit THEN get_hits(f, before)
                     ELSE get_moves(f, before),
                     Target)}
    /\ \A f \in call.kept[3] :
         (f.piece = "P") =>
           ((f.coord.x # Target.x) <=> unwrap(call.draw).is_hit)

\* A capture token without disambiguator: of the eight pawns the stage was
\* given it kept the two that stand diagonally before the target.
C24_Witness ==
  /\ StageRan(3)
  /\ unwrap(call.draw).is_hit
  /\ Cardinality(call.kept[2]) = 8
  /\ Cardinality(call.kept[3]) = 2
  /\ \A f \in call.kept[3] :
       /\ f.piece = "P"
       /\ abs(f.coord.x - Target.x) = 1
       /\ abs(f.coord.y - Target.y) = 1

\* The Game the self-check stage looks at for a candidate: the figure on the
\* target taken off for a capture token, the candidate moved to the target.
AfterMove(g, draw, fig) ==
  move_figure(IF draw.is_hit THEN remove_figure(g, unwrap(g.position[draw.target.idx]))
              ELSE g,
              fig, draw.target)

\* An enemy rook, bishop or queen of g has the square c in its destination set.
Exposed(g, color, c) ==
  \E f \in g.figures :
    /\ f.color # color
    /\ f.piece \in {"R", "B", "Q"}
    /\ contains(get_moves(f, g), c)

\* C25: when the self-check stage selects a mover, the mover is one of the
\* candidates the stage was given, and moving it to the target (the figure on
\* the target removed first, for a capture token) leaves no enemy rook, bishop
\* or queen with the square of the mover's own king in its destination set.
C25_SelectedMoverShieldsKing ==
  (StageRan(4) /\ is_some(call.mover)) =>
    /\ Mover \in call.kept[3]
    /\ \A king \in find_king(before, before.color) :
         ~Exposed(AfterMove(before, unwrap(call.draw), Mover), before.color, king.coord)

\* Two candidates reach the target and both are pinned: the one that would
\* leave its pin line was dropped, the one that moves along it was selected.
C25_Witness ==
  /\ StageRan(4)
  /\ is_some(call.mover)
  /\ Cardinality(call.kept[3]) = 2
  /\ call.kept[4] = {Mover}
  /\ \A f \in call.kept[3] :
       \A king \in find_king(before, before.color) :
         /\ Exposed(remove_figure(before, f), before.color, king.coord)
         /\ (f # Mover) =>
              Exposed(AfterMove(before, unwrap(call.draw), f), before.color, king.coord)

\* C26: in every returning call with a capture token the figure removed is of
\* the color that did not move.
C26_CaptureTakesEnemy ==
  (Ordinary /\ is_some(call.hit)) => (unwrap(call.hit).color # before.color)

\* A pawn on the rank it starts the game on.
OnStartingRank(fig) ==
  \/ (fig.color = Color_W) /\ (fig.coord.y = 1)
  \/ (fig.color = Color_B) /\ (fig.coord.y = 6)

C28_PawnCaptureDestinations ==
  Did("get_pawn_hits") =>
    /\ Destinations =
         {sq \in At(probe.input.coord.x - 1, probe.input.coord.y + Color_factor(probe.input.color))
                 \cup At(probe.input.coord.x + 1,
                         probe.input.coord.y + Color_factor(probe.input.color)) :
            \/ HoldsEnemy(sq, probe.input)
            \/ is_some(game.en_passant) /\ (unwrap(game.en_passant).idx = sq)}
    /\ \A sq \in Destinations : abs(board[sq].x - probe.input.coord.x) = 1

\* The squares an L-shaped jump away from the square on file x and rank y.
Jumps(x, y) ==
  UNION {At(x + d[1], y + d[2]) :
           d \in {<<1, 2>>, <<2, 1>>, <<2, -1>>, <<1, -2>>,
                  <<-1, -2>>, <<-2, -1>>, <<-2, 1>>, <<-1, 2>>}}

\* C29: the destinations of a knight are exactly the squares of the board an
\* L-shaped jump away that are empty or hold an enemy figure; no destination
\* comes from an index offset that wraps around a board edge.
C29_KnightDestinations ==
  Did("get_knight_moves") =>
    Destinations =
      {sq \in Jumps(probe.input.coord.x, probe.input.coord.y) :
         Empty(sq) \/ HoldsEnemy(sq, probe.input)}

\* A knight on the h-file, an offset of which wraps onto an empty square of
\* the a-file, with an enemy figure and a figure of its own an L-shaped jump away.
C29_Witness ==
  /\ Did("get_knight_moves")
  /\ probe.input.coord.x = 7
  /\ \E i \in {-15, -6, 10, 17} :
       /\ valid_idx(probe.input.coord.idx + i)
       /\ board[probe.input.coord.idx + i].x \in {0, 1}
       /\ Empty(probe.input.coord.idx + i)
       /\ (probe.input.coord.idx + i) \notin Destinations
  /\ \E sq \in Destinations : HoldsEnemy(sq, probe.input)
  /\ \E sq \in Jumps(probe.input.coord.x, probe.input.coord.y) : sq \notin Destinations

\* The squares a figure reaches from its square along the rays of the given
\* steps of file and rank: the squares of the board before which the ray is
\* empty, themselves empty or holding an enemy figure.
Reach(fig, steps) ==
  {sq \in 0..63 :
     \E d \in steps, k \in 1..7 :
       /\ sq \in At(fig.coord.x + k * d[1], fig.coord.y + k * d[2])
       /\ \A j \in 1..(k - 1) :
            \A s \in At(fig.coord.x + j * d[1], fig.coord.y + j * d[2]) : Empty(s)
       /\ Empty(sq) \/ HoldsEnemy(sq, fig)}

\* C30: the destinations of a bishop are, on each of the four diagonal rays,
\* the empty squares up to the first occupied square, and that square when
\* it holds an enemy figure; nothing beyond a blocker and no square reached
\* by wrapping around a board edge.
C30_BishopDestinations ==
  Did("get_bishop_moves") =>
    Destinations = Reach(probe.input, {<<1, 1>>, <<1, -1>>, <<-1, 1>>, <<-1, -1>>})

\* A bishop on the a- or h-file with an enemy figure taken at the end of one
\* ray, behind it a square the bishop could enter were the ray open, and with
\* a figure of its own color ending another ray.
C30_Witness ==
  /\ Did("get_bishop_moves")
  /\ probe.input.coord.x \in {0, 7}
  /\ \E d \in {<<1, 1>>, <<1, -1>>, <<-1, 1>>, <<-1, -1>>}, k \in 2..6 :
       /\ \E sq \in At(probe.input.coord.x + k * d[1], probe.input.coord.y + k * d[2]) :
            (sq \in Destinations) /\ HoldsEnemy(sq, probe.input)
       /\ \E sq \in At(probe.input.coord.x + (k + 1) * d[1],
                         probe.input.coord.y + (k + 1) * d[2]) :
            (sq \notin Destinations) /\ (Empty(sq) \/ HoldsEnemy(sq, probe.input))
  /\ \E d \in {<<1, 1>>, <<1, -1>>, <<-1, 1>>, <<-1, -1>>}, k \in 2..7 :
       /\ \E sq \in At(probe.input.coord.x + k * d[1], probe.input.coord.y + k * d[2]) :
            ~Empty(sq) /\ ~HoldsEnemy(sq, probe.input)
       /\ \E sq \in At(probe.input.coord.x + (k - 1) * d[1],
                         probe.input.coord.y + (k - 1) * d[2]) : sq \in Destinations

\* C31: the destinations of a rook are, on each of the four orthogonal rays,
\* the empty squares up to the first occupied square, and that square when
\* it holds an enemy figure; nothing beyond a blocker and no square off the
\* rook's file and rank.
C31_RookDestinations ==
  Did("get_rook_moves") =>
    /\ Destinations = Reach(probe.input, {<<1, 0>>, <<-1, 0>>, <<0, 1>>, <<0, -1>>})
    /\ \A sq \in Destinations :
         (board[sq].x = probe.input.coord.x) \/ (board[sq].y = probe.input.coord.y)

\* A rook on the a- or h-file, not on the first or last rank, that takes an
\* enemy figure at the end of one ray, with a square behind it the rook could
\* enter were the ray open, and that is stopped by a figure of its own color
\* on another ray.
C31_Witness ==
  /\ Did("get_rook_moves")
  /\ probe.input.coord.x \in {0, 7}
  /\ probe.input.coord.y \in 1..6
  /\ \E d \in {<<1, 0>>, <<-1, 0>>, <<0, 1>>, <<0, -1>>}, k \in 2..6 :
       /\ \E sq \in At(probe.input.coord.x + k * d[1], probe.input.coord.y + k * d[2]) :
            (sq \in Destinations) /\ HoldsEnemy(sq, probe.input)
       /\ \E sq \in At(probe.input.coord.x + (k + 1) * d[1],
                         probe.input.coord.y + (k + 1) * d[2]) :
            (sq \notin Destinations) /\ (Empty(sq) \/ HoldsEnemy(sq, probe.input))
  /\ \E d \in {<<1, 0>>, <<-1, 0>>, <<0, 1>>, <<0, -1>>}, k \in 2..7 :
       /\ \E sq \in At(probe.input.coord.x + k * d[1], probe.input.coord.y + k * d[2]) :
            ~Empty(sq) /\ ~HoldsEnemy(sq, probe.input)
       /\ \E sq \in At(probe.input.coord.x + (k - 1) * d[1],
                         probe.input.coord.y + (k - 1) * d[2]) : sq \in Destinations

\* C32: the destinations of a king are exactly the squares of the board at
\* file distance at most one and rank distance at most one from it, other
\* than its own, that are empty or hold an enemy figure.
C32_KingDestinations ==
  Did("get_king_moves") =>
    Destinations =
      {sq \in 0..63 :
         /\ sq # probe.input.coord.idx
         /\ abs(board[sq].x - probe.input.coord.x) <= 1
         /\ abs(board[sq].y - probe.input.coord.y) <= 1
         /\ Empty(sq) \/ HoldsEnemy(sq, probe.input)}

\* C33: every ordinary move a call applies is one the mover can make: the
\* target is among the mover's capture destinations for a capture token and
\* among its quiet destinations otherwise, in the position the call began with.
C33_AppliedMoveIsReachable ==
  Ordinary =>
    contains(IF unwrap(call.draw).is_hit
             THEN get_hits(Mover, before) ELSE get_moves(Mover, before),
             Target)

\* C34: a call that failed, wherever it failed, has left every field of the
\* Game as it was when the call began.
C34_FailedCallKeepsGame ==
  ((ply > 0) /\ (call.err # "ok")) => (game = before)

\* The four castling rights, by the names of their fields.
Rights == {"white_kingside", "white_queenside", "black_kingside", "black_queenside"}

\* C35: a castling right that is false never becomes true again: a right that
\* was false when the run began, or when the last call began, is false now.
C35_RightsOnlyDecrease ==
  \A r \in Rights :
    (~start.castling[r] \/ ~before.castling[r]) => ~game.castling[r]

\* The second of two returning calls has moved a king or a rook of a game that
\* began without castling rights, and a right is false after it.
C35_Witness ==
  /\ ply = 2
  /\ Ordinary
  /\ Mover.piece \in {"K", "R"}
  /\ \E r \in Rights : ~start.castling[r] /\ ~before.castling[r] /\ ~game.castling[r]

\* C36: in a run from Game::new() whose calls all returned, a castling right
\* that is true has the king of its color on e1 or e8 and a rook of its color
\* on the corner of its side.
C36_RightImpliesHomeSquares ==
  ((start = Game_new) /\ (call.err = "ok")) =>
    \A color \in {Color_W, Color_B}, long \in BOOLEAN :
      game.castling[(IF color = Color_W THEN "white_" ELSE "black_")
                    \o (IF long THEN "queenside" ELSE "kingside")] =>
        /\ game.position[IndexOf(CastlingSquares(color, long).king_src)] =
             Some([color |-> color, piece |-> "K",
                   coord |-> unwrap(Coord_from(CastlingSquares(color, long).king_src))])
        /\ game.position[IndexOf(CastlingSquares(color, long).rook_src)] =
             Some([color |-> color, piece |-> "R",
                   coord |-> unwrap(Coord_from(CastlingSquares(color, long).rook_src))])

\* C37: after a returning call, castling included, an en-passant target is
\* set only if the move just applied was a pawn's advance by two ranks.
C37_TargetLivesOnePly ==
  (Returned /\ is_some(game.en_passant)) =>
    /\ Ordinary
    /\ Mover.piece = "P"
    /\ abs(Mover.coord.y - Target.y) = 2

\* The figure of the color and kind on the square a two-character text names.
FigureOn(color, piece, text) ==
  Some([color |-> color, piece |-> piece, coord |-> unwrap(Coord_from(text))])

\* A castling over the squares sq found the mover's king and rook at home and
\* both target squares empty.
CastlesOwnFigures(sq) ==
  /\ before.position[IndexOf(sq.king_src)] = FigureOn(before.color, "K", sq.king_src)
  /\ before.position[IndexOf(sq.rook_src)] = FigureOn(before.color, "R", sq.rook_src)
  /\ is_none(before.position[IndexOf(sq.king_tgt)])
  /\ is_none(before.position[IndexOf(sq.rook_tgt)])

\* C38: a returning castling call has relocated a king of the side to move
\* from e1/e8 and a rook of the side to move from the corner, onto squares
\* that were empty.
C38_CastlingMovesOwnKingAndRook ==
  (Returned /\ IsCastlingCall) =>
    CastlesOwnFigures(CastlingSquares(before.color, IsLongCastlingCall))

\* C40: every index a call uses on the position array or the square table is
\* one of 0..63: the mover's square, the target, the captured figure's square,
\* and, after a pawn move over two ranks, the square behind the target.
C40_IndexesOnBoard ==
  ((ply > 0) /\ is_some(call.draw) /\ is_some(call.mover)) =>
    /\ Mover.coord.idx \in 0..63
    /\ Target.idx \in 0..63
    /\ is_some(call.hit) => (unwrap(call.hit).coord.idx \in 0..63)
    /\ ((call.err \in {"ok", "index"}) /\ (Mover.piece = "P")
           /\ (abs(Mover.coord.y - Target.y) = 2))
         => (ep_index(before, unwrap(call.draw)) \in 0..63)

\* C39: every quiet destination of a pawn is an empty square of the position
\* it was computed for.
C39_PawnQuietDestinationsEmpty ==
  Did("get_pawn_moves") => \A sq \in Destinations : Empty(sq)

====
